---- MODULE Spec2Model ----
(***************************************************************************)
(* Model of the PDF-QA chatbot backend:                                    *)
(*   - APIKeyManager (backend/app/rag/api_key_manager.py): the credential  *)
(*     pool with sticky per-session assignment and exclusion fallback;     *)
(*   - get_llm_response (backend/app/rag/llm.py) and QAAgent.ask           *)
(*     (backend/app/rag/agent.py): the completion call and its failover;   *)
(*   - DriveSyncService.sync_now (backend/app/services/drive_sync.py) over *)
(*     MongoVectorStore (backend/app/rag/mongo_store.py): reconciliation   *)
(*     of the remote folder against the stored chunks;                     *)
(*   - VectorStore (backend/app/rag/vector_store.py) and the request       *)
(*     handlers of backend/app/main.py: the local upload batch and the     *)
(*     question-answering requests.                                        *)
(***************************************************************************)
EXTENDS Integers, Sequences, FiniteSets, TLC

(***************************************************************************)
(* Bounds of the model.                                                    *)
(***************************************************************************)
\* number of distinct credentials the environment can configure
MaxKeys == 2
\* number of distinct conversation sessions
MaxSessions == 2
\* cap of the sum of the usage and error counters (unbounded ints in the code)
MaxCount == 2
\* cap of the round-robin cursor key_index (unbounded int in the code)
MaxIndex == 3
\* number of distinct file ids of the remote folder
MaxFiles == 2
\* number of distinct modification tokens (modifiedTime values)
MaxToken == 2
\* largest number of chunks one file version yields
MaxChunks == 2
\* the pieces (text outside tags, source tags) of an answer text
MaxSegs == 2
\* number of poll-loop threads start() can create
MaxLoops == 2
\* last reading of the clock; it stands for that time and every later one
MaxTime == 2
\* number of clock ticks the 300 seconds of time.sleep(300) take
SleepTicks == 1
\* calls of the key manager the threads make in one behaviour
MaxCalls == 3
\* messages of a conversation history
MaxHistory == 3
\* largest distance of a stored vector to a query
MaxDist == 1

Creds == 1..MaxKeys
Sessions == 1..MaxSessions
\* None as a credential ("no credential available")
NoKey == 0
\* None / "" as a session id (falsy in `if session_id:`)
NoSession == 0

Range(s) == {s[i] : i \in DOMAIN s}

\* f[1] + ... + f[n]
RECURSIVE SumTo(_, _)
SumTo(f, n) == IF n = 0 THEN 0 ELSE f[n] + SumTo(f, n - 1)

\* the key lists _load_keys can build: it appends a key only when the key is
\* not yet in the list, so the list has no duplicates; it may be empty.
\* Credentials are interchangeable, so a list of each length in both orders.
KeyLists == {[i \in 1..n |-> i] : n \in 0..MaxKeys}
            \cup {[i \in 1..n |-> n + 1 - i] : n \in 0..MaxKeys}

Strategies == {"round_robin", "random"}

VARIABLES
    keys,             \* APIKeyManager.keys
    key_index,        \* APIKeyManager.key_index
    session_key_map,  \* APIKeyManager.session_key_map (NoKey = no entry)
    key_usage,        \* APIKeyManager.key_usage
    key_errors,       \* APIKeyManager.key_errors
    first,            \* history: what the first get_key_for_session of a session returned
    last,             \* history: the last call, its arguments and its result
    store,            \* the drive_knowledge collection of MongoVectorStore:
                      \* number of chunks per metadata.file_id and metadata.modified_time
    cyc,              \* history: the last sync_now run, its inputs and what it did
    error_calls,      \* history: per credential, the record_error calls since
                      \* its last record_success
    chunks,           \* VectorStore.chunks of local_vector_store
    index,            \* VectorStore.index of local_vector_store: the stored vectors
    req,              \* history: the last request of the web layer and its response
    runs,             \* the runs of sync_now in progress: the listing they obtained,
                      \* the collection before them, and the position of each
    folder_id,        \* DriveSyncService.folder_id
    is_syncing,       \* DriveSyncService.is_syncing
    stop_event,       \* DriveSyncService.stop_event: the flag is set
    last_sync_time,   \* DriveSyncService.last_sync_time
    loops,            \* the threads start() created to run _sync_loop: the
                      \* position of each and what is left of its sleep
    now,              \* the reading of the clock
    conc              \* the threads inside the methods of the key manager: who holds
                      \* APIKeyManager.lock, the position and the locals of each
                      \* thread, and the calls counted so far

vars == <<keys, key_index, session_key_map, key_usage, key_errors, first, last,
          store, cyc, error_calls, chunks, index, req, runs,
          folder_id, is_syncing, stop_event, last_sync_time, loops, now, conc>>

\* no call made yet; the fields of a call: the operation, its session argument,
\* its exclusion set, the credential it returned, the completion calls it made
\* (credential and outcome of each), the kind of result it returned, and in
\* prev what was known before the call: for get_key_for_session what the
\* first call of the session returned, for get_key_with_fallback and
\* get_llm_response the binding of the session, for ask the credential of the directly preceding
\* successful ask of the same conversation
NoCall == [op |-> "none", sid |-> NoSession, excl |-> {}, key |-> NoKey,
           prev |-> NoKey, calls |-> <<>>, result |-> "none"]

Files == 1..MaxFiles
Tokens == 1..MaxToken
\* a file id that the folder listing does not contain, or that has no chunks
Absent == 0

\* no sync_now run yet; the fields of a run: how it ended, the folder listing
\* it obtained (file id -> modifiedTime, Absent when not listed), the files
\* whose download failed, the files that had chunks when it started (had), the
\* listed files that had chunks of another modifiedTime than the listed one
\* (stale), the number of add_texts and delete_by_file_id calls it made,
\* whether the collection differs from before, whether the directly
\* preceding run completed with the same listing (sameAsPrev) and without
\* a failed download (prevClean), the listed files it found new or
\* modified (dirty), and whether one of the credential sources it could
\* read held usable credentials (resolvable)
NoCycle == [outcome |-> "none", listing |-> [f \in Files |-> Absent], failed |-> {},
            had |-> {}, stale |-> {}, adds |-> 0, dels |-> 0, changed |-> FALSE,
            sameAsPrev |-> FALSE, prevClean |-> FALSE, dirty |-> {},
            resolvable |-> FALSE]

\* two threads that call the methods of the key manager at the same time
Threads == {"first", "second"}
\* APIKeyManager.lock held by no thread
Free == "free"

\* a thread that is in no method of the manager; the fields of a thread: the
\* method it is in, its session_id and api_key arguments (key is also the
\* local variable `key`), its position, whether the strategy is round robin,
\* the value it read for a `+= 1`, what it returned, and whether another
\* thread was inside a method when it made the call
IdleThread == [op |-> "none", sid |-> NoSession, key |-> NoKey, pc |-> "idle",
               rr |-> FALSE, rd |-> 0, ret |-> NoKey, raced |-> FALSE]

\* no thread in a method and no call made; sels counts the writes of the
\* cursor, succ those of each usage counter, binds those of each binding
NoThreads == [lock |-> Free, of |-> [t \in Threads |-> IdleThread], started |-> 0,
              sels |-> 0, succ |-> [k \in Creds |-> 0],
              binds |-> [s \in Sessions |-> 0]]

InitPool ==
    /\ conc = NoThreads
    /\ key_index = 0
    /\ session_key_map = [s \in Sessions |-> NoKey]
    /\ key_usage = [k \in Creds |-> 0]
    /\ key_errors = [k \in Creds |-> 0]
    /\ first = [s \in Sessions |-> NoKey]
    /\ last = NoCall
    /\ error_calls = [k \in Creds |-> 0]

\* the callers of sync_now: _sync_loop and the background task that
\* /drive/sync-now adds
Runners == {"timer", "trigger"}

\* a run of sync_now that has not begun; pc: "idle", "loop" (before the
\* visit of file pos in the `for file in files` loop, or before the deletion
\* logic when pos is past the last file), "add" (after the download of file
\* pos, before its add_texts), "done"; processed: its processed_files
IdleRun == [pc |-> "idle", pos |-> 1, processed |-> [f \in Files |-> Absent]]

\* no run of sync_now in progress; listing: the folder listing the runs in
\* progress obtained, before: the collection when the first of them began,
\* clean: none of their downloads failed
NoRuns == [listing |-> [f \in Files |-> Absent],
           of |-> [r \in Runners |-> IdleRun],
           before |-> [f \in Files |-> [t \in Tokens |-> 0]],
           clean |-> TRUE]

\* the threads of _sync_loop, in the order of their creation
Loops == 1..MaxLoops

\* self.last_sync_time = None
Never == -1

\* DRIVE_FOLDER_ID: empty, or the id of a folder
NoFolder == ""
Folders == {NoFolder, "folder"}

\* a thread that start() has not created; pc: "none", "check" (at the
\* condition of the `while`), "cycle" (in sync_now), "sleep" (in
\* time.sleep; at the condition again once wait is 0), "ended"; wait: the
\* ticks left of its sleep; ran: it has ended a cycle; since: the ticks
\* since it ended its last cycle, up to SleepTicks; stopped: stop() was
\* called since it began its last cycle
NoLoop == [pc |-> "none", wait |-> 0, ran |-> FALSE, since |-> 0, stopped |-> FALSE]

\* DriveSyncService.__init__: not syncing, the event clear, no sync yet; no
\* thread is created before start()
InitService ==
    /\ is_syncing = FALSE
    /\ stop_event = FALSE
    /\ last_sync_time = Never
    /\ loops = [t \in Loops |-> NoLoop]
    /\ now = 0

\* the fields of the service and its threads that sync_now leaves alone
loopVars == <<folder_id, is_syncing, stop_event, loops, now>>

\* the collection is empty before the first sync; a folder is configured
InitSync ==
    /\ store = [f \in Files |-> [t \in Tokens |-> 0]]
    /\ cyc = NoCycle
    /\ runs = NoRuns
    /\ folder_id = "folder"
    /\ InitService

\* no request yet; the fields of a request: the operation, the HTTP status of
\* its response (0 when the operation is no HTTP request), whether it raised to
\* its caller (for a handler: whether the search of QAAgent.ask raised), the
\* kind of answer text and the sources of a question-answering response,
\* how the completion ended and the number of completion calls, the
\* files of an upload, the files and the chunk count the upload reported, the
\* retrieved chunks and the answer text of an ask, whether the payload of
\* an ask held a question, the number of chunks of the store asked, whether
\* an accepted upload removed a chunk the store held, the local chunks
\* at the start of a request that was rejected, and the pieces of the
\* answer text whose sources were extracted
NoReq == [op |-> "none",
          k |-> 0,
          processed |-> <<>>,
          before |-> <<>>,
          status |-> 0,
          raised |-> FALSE,
          answer |-> "none",
          sources |-> {},
          completion |-> "none",
          ncalls |-> 0,
          files |-> <<>>,
          count |-> 0,
          hits |-> {},
          text |-> <<>>,
          question |-> FALSE,
          corpus |-> 0,
          dropped |-> FALSE,
          segs |-> <<>>,
          history |-> <<>>,
          bound |-> 0,
          window |-> <<>>,
          dist |-> <<>>,
          results |-> <<>>]

\* local_vector_store = VectorStore(dimension=384): empty index, no chunks
InitLocal ==
    /\ chunks = <<>>
    /\ index = <<>>
    /\ req = NoReq

Init ==
    /\ keys \in KeyLists
    /\ InitPool
    /\ InitSync
    /\ InitLocal

(***************************************************************************)
(* APIKeyManager                                                           *)
(***************************************************************************)
\* a pool state as the methods read and write it
PoolState == [map |-> session_key_map, idx |-> key_index,
              usage |-> key_usage, errors |-> key_errors]

\* round-robin selection: keys[key_index % len(keys)] (0-based in the code)
RoundRobinKey(idx) == keys[(idx % Len(keys)) + 1]

\* a mutant of SessionBound: the binding of a session is never found
SessionBound_never(p, sid) == FALSE

\* `if session_id:` and `session_id in self.session_key_map`
SessionBound(p, sid) == sid # NoSession /\ p.map[sid] # NoKey

\* get_key_for_session(session_id, strategy); r is the position random.choice picks
get_key_for_session(p, sid, strategy, r) ==
    IF keys = <<>> THEN [key |-> NoKey, pool |-> p]
    ELSE IF SessionBound(p, sid)
         THEN [key |-> p.map[sid], pool |-> p]
    ELSE LET key == IF strategy = "random" THEN keys[r] ELSE RoundRobinKey(p.idx)
             idx == IF strategy = "random" THEN p.idx ELSE p.idx + 1
         IN  [key |-> key,
              pool |-> [p EXCEPT !.idx = idx,
                                 !.map = IF sid # NoSession
                                         THEN [p.map EXCEPT ![sid] = key]
                                         ELSE p.map]]

\* a mutant of available_keys: no key is available when every key is excluded
available_keys_no_reset(excl) ==
    LET avail == SelectSeq(keys, LAMBDA k : k \notin excl)
    IN  IF avail = <<>> THEN <<NoKey>> ELSE avail

\* a mutant of available_keys: the filter is inverted, the excluded keys
\* are the available ones
available_keys_inverted(excl) ==
    LET avail == SelectSeq([i \in 1..MaxKeys |-> i], LAMBDA k : k \in excl)
    IN  IF avail = <<>> THEN keys ELSE avail

\* a mutant of available_keys: the exclusion list is not applied
available_keys_unfiltered(excl) == keys

\* available_keys of get_key_with_fallback: the non-excluded keys in configured
\* order, or the whole list when every key is excluded
available_keys(excl) ==
    LET avail == SelectSeq(keys, LAMBDA k : k \notin excl)
    IN  IF avail = <<>> THEN keys ELSE avail

\* a mutant of get_key_with_fallback: a bound session is rebound to the first
\* available key whether or not its key is excluded
get_key_with_fallback_rebinds(p, sid, excl) ==
    IF keys = <<>> THEN [key |-> NoKey, pool |-> p]
    ELSE LET avail == available_keys(excl)
         IN  IF SessionBound(p, sid)
             THEN [key |-> avail[1],
                   pool |-> [p EXCEPT !.map = [p.map EXCEPT ![sid] = avail[1]]]]
             ELSE [key |-> avail[1], pool |-> p]

\* get_key_with_fallback(session_id, exclude_keys)
get_key_with_fallback(p, sid, excl) ==
    IF keys = <<>> THEN [key |-> NoKey, pool |-> p]
    ELSE LET avail == available_keys(excl)
         IN  IF SessionBound(p, sid)
             THEN IF p.map[sid] \in Range(avail)
                  THEN [key |-> p.map[sid], pool |-> p]
                  ELSE [key |-> avail[1],
                        pool |-> [p EXCEPT !.map = [p.map EXCEPT ![sid] = avail[1]]]]
             ELSE [key |-> avail[1], pool |-> p]

\* a mutant of record_success: the error counter is not reset
record_success_no_reset(p, k) ==
    [p EXCEPT !.usage = [p.usage EXCEPT ![k] = @ + 1]]

\* record_success(api_key)
record_success(p, k) ==
    [p EXCEPT !.usage = [p.usage EXCEPT ![k] = @ + 1],
              !.errors = [p.errors EXCEPT ![k] = 0]]

\* a mutant of record_error: the sessions bound to the key lose their binding
record_error_evicting(p, k) ==
    [p EXCEPT !.errors = [p.errors EXCEPT ![k] = @ + 1],
              !.map = [s \in Sessions |-> IF p.map[s] = k THEN NoKey ELSE p.map[s]]]

\* record_error(api_key)
record_error(p, k) ==
    [p EXCEPT !.errors = [p.errors EXCEPT ![k] = @ + 1]]

\* clear_session(session_id)
clear_session(p, sid) ==
    [p EXCEPT !.map = [p.map EXCEPT ![sid] = NoKey]]

\* the counters and the cursor stay within the caps of the model
WithinCaps(p) ==
    /\ p.idx <= MaxIndex
    /\ SumTo(p.usage, MaxKeys) + SumTo(p.errors, MaxKeys) <= MaxCount

SetPool(p) ==
    /\ WithinCaps(p)
    /\ session_key_map' = p.map
    /\ key_index' = p.idx
    /\ key_usage' = p.usage
    /\ key_errors' = p.errors
    /\ UNCHANGED <<keys, store, cyc, runs, last_sync_time, loopVars, conc>>

\* the record_error calls since the last record_success, after the completion
\* calls of one get_llm_response: it calls record_success for a call answered
\* with 200 and record_error for a failed first call
AfterCalls(ec, calls) ==
    [k \in Creds |->
        IF \E i \in DOMAIN calls : calls[i].key = k /\ calls[i].st = 200 THEN 0
        ELSE IF calls # <<>> /\ calls[1].key = k THEN ec[k] + 1
        ELSE ec[k]]

\* a caller invokes get_key_for_session
GetKeyForSession(sid) ==
    \E strategy \in Strategies, r \in 1..MaxKeys :
        /\ (keys # <<>> => r \in DOMAIN keys)
        /\ (keys = <<>> \/ strategy # "random" => r = 1)
        /\ LET res == get_key_for_session(PoolState, sid, strategy, r)
           IN  /\ SetPool(res.pool)
               /\ first' = IF sid # NoSession /\ first[sid] = NoKey
                           THEN [first EXCEPT ![sid] = res.key] ELSE first
               /\ last' = [NoCall EXCEPT !.op = "get_key_for_session", !.sid = sid,
                                         !.key = res.key,
                                         !.prev = IF sid # NoSession
                                                  THEN first[sid] ELSE NoKey]
        /\ UNCHANGED <<error_calls, chunks, index, req>>

\* a caller invokes get_key_with_fallback
GetKeyWithFallback(sid) ==
    \E excl \in SUBSET Creds :
        /\ LET res == get_key_with_fallback(PoolState, sid, excl)
           IN  /\ SetPool(res.pool)
               /\ last' = [NoCall EXCEPT !.op = "get_key_with_fallback", !.sid = sid,
                                         !.excl = excl, !.key = res.key,
                                         !.prev = IF sid # NoSession
                                                  THEN session_key_map[sid]
                                                  ELSE NoKey]
        /\ first' = IF sid # NoSession THEN [first EXCEPT ![sid] = NoKey] ELSE first
        /\ UNCHANGED <<error_calls, chunks, index, req>>

\* a caller invokes record_success with a credential of the pool
RecordSuccess ==
    \E k \in Range(keys) :
        /\ SetPool(record_success(PoolState, k))
        /\ last' = [NoCall EXCEPT !.op = "record_success", !.key = k]
        /\ error_calls' = [error_calls EXCEPT ![k] = 0]
        /\ UNCHANGED <<first, chunks, index, req>>

\* a caller invokes record_error with a credential of the pool
RecordError ==
    \E k \in Range(keys) :
        /\ SetPool(record_error(PoolState, k))
        /\ last' = [NoCall EXCEPT !.op = "record_error", !.key = k]
        /\ error_calls' = [error_calls EXCEPT ![k] = @ + 1]
        /\ UNCHANGED <<first, chunks, index, req>>

\* the external reaper invokes clear_session
ClearSession(sid) ==
        /\ SetPool(clear_session(PoolState, sid))
        /\ first' = [first EXCEPT ![sid] = NoKey]
        /\ last' = [NoCall EXCEPT !.op = "clear_session", !.sid = sid]
        /\ UNCHANGED <<error_calls, chunks, index, req>>

(***************************************************************************)
(* APIKeyManager under concurrent callers: threads and self.lock           *)
(***************************************************************************)
\* the methods the threads call
ThreadOps == {"get_key_for_session", "record_success", "record_error"}

\* a mutant of LockAvailable: `with self.lock` never waits
LockAvailable_always(holder) == TRUE

\* `with self.lock:` is entered when no thread holds the lock
LockAvailable(holder) == holder = Free

\* one statement of thread th inside `with self.lock` on pool p; r is the
\* position random.choice picks
critical_section(p, th, r) ==
    CASE th.pc = "lookup" ->
           IF SessionBound(p, th.sid)
           THEN [pool |-> p, th |-> [th EXCEPT !.pc = "release", !.ret = p.map[th.sid]]]
           ELSE [pool |-> p, th |-> [th EXCEPT !.pc = "select"]]
      [] th.pc = "select" ->
           IF th.rr
           THEN [pool |-> p,
                 th |-> [th EXCEPT !.key = RoundRobinKey(p.idx),
                                   !.pc = "index_write", !.rd = p.idx]]
           ELSE [pool |-> p, th |-> [th EXCEPT !.key = keys[r], !.pc = "bind"]]
      [] th.pc = "index_write" ->
           [pool |-> [p EXCEPT !.idx = th.rd + 1], th |-> [th EXCEPT !.pc = "bind"]]
      [] th.pc = "bind" ->
           [pool |-> IF th.sid # NoSession
                     THEN [p EXCEPT !.map = [p.map EXCEPT ![th.sid] = th.key]]
                     ELSE p,
            th |-> [th EXCEPT !.pc = "release", !.ret = th.key]]
      [] th.pc = "usage_read" ->
           [pool |-> p, th |-> [th EXCEPT !.pc = "usage_write", !.rd = p.usage[th.key]]]
      [] th.pc = "usage_write" ->
           [pool |-> [p EXCEPT !.usage = [p.usage EXCEPT ![th.key] = th.rd + 1]],
            th |-> [th EXCEPT !.pc = "errors_reset"]]
      [] th.pc = "errors_reset" ->
           [pool |-> [p EXCEPT !.errors = [p.errors EXCEPT ![th.key] = 0]],
            th |-> [th EXCEPT !.pc = "release"]]
      [] th.pc = "errors_read" ->
           [pool |-> p, th |-> [th EXCEPT !.pc = "errors_write", !.rd = p.errors[th.key]]]
      [] th.pc = "errors_write" ->
           [pool |-> [p EXCEPT !.errors = [p.errors EXCEPT ![th.key] = th.rd + 1]],
            th |-> [th EXCEPT !.pc = "release"]]

notThreads == <<keys, first, last, store, cyc, chunks, index, req, runs,
                last_sync_time, loopVars>>

\* thread t calls a method; get_key_for_session on an empty pool returns
\* None before the lock (lines 78-79)
ThreadCalls(t) ==
    /\ conc.of[t].pc \in {"idle", "done"}
    /\ conc.started < MaxCalls
    /\ \E op \in ThreadOps, sid \in {NoSession, 1}, k \in Creds, rr \in BOOLEAN :
          /\ IF op = "get_key_for_session"
             THEN k = NoKey + 1
             ELSE k \in Range(keys) /\ sid = NoSession /\ ~rr
          /\ conc' = [conc EXCEPT
                 !.of[t] = [IdleThread EXCEPT
                              !.op = op, !.sid = sid,
                              !.key = IF op = "get_key_for_session" THEN NoKey ELSE k,
                              !.pc = IF op = "get_key_for_session" /\ keys = <<>>
                                     THEN "done" ELSE "acquire",
                              !.rr = rr,
                              !.raced = \E u \in Threads \ {t} :
                                           conc.of[u].pc \notin {"idle", "done"}],
                 !.started = @ + 1]
    /\ UNCHANGED <<key_index, session_key_map, key_usage, key_errors, error_calls>>
    /\ UNCHANGED notThreads

\* thread t enters `with self.lock`
ThreadAcquires(t) ==
    /\ conc.of[t].pc = "acquire"
    /\ LockAvailable(conc.lock)
    /\ conc' = [conc EXCEPT
           !.lock = t,
           !.of[t].pc = CASE conc.of[t].op = "get_key_for_session" -> "lookup"
                          [] conc.of[t].op = "record_success" -> "usage_read"
                          [] conc.of[t].op = "record_error" -> "errors_read"]
    /\ UNCHANGED <<key_index, session_key_map, key_usage, key_errors, error_calls>>
    /\ UNCHANGED notThreads

\* thread t executes one statement inside `with self.lock`
ThreadSteps(t) ==
    /\ conc.of[t].pc \notin {"idle", "acquire", "release", "done"}
    /\ \E r \in DOMAIN keys :
          /\ (conc.of[t].pc = "select" /\ ~conc.of[t].rr) \/ r = 1
          /\ LET th == conc.of[t]
                 res == critical_section(PoolState, th, r)
             IN  /\ session_key_map' = res.pool.map
                 /\ key_index' = res.pool.idx
                 /\ key_usage' = res.pool.usage
                 /\ key_errors' = res.pool.errors
                 /\ error_calls' =
                        IF th.pc = "errors_reset" THEN [error_calls EXCEPT ![th.key] = 0]
                        ELSE IF th.pc = "errors_write"
                             THEN [error_calls EXCEPT ![th.key] = @ + 1]
                        ELSE error_calls
                 /\ conc' = [conc EXCEPT
                        !.of[t] = res.th,
                        !.sels = IF th.pc = "index_write" THEN @ + 1 ELSE @,
                        !.succ = IF th.pc = "usage_write"
                                 THEN [@ EXCEPT ![th.key] = @ + 1] ELSE @,
                        !.binds = IF th.pc = "bind" /\ th.sid # NoSession
                                  THEN [@ EXCEPT ![th.sid] = @ + 1] ELSE @]
    /\ UNCHANGED notThreads

\* thread t leaves `with self.lock` and returns
ThreadReleases(t) ==
    /\ conc.of[t].pc = "release"
    /\ conc' = [conc EXCEPT !.lock = Free,
                            !.of[t] = [@ EXCEPT !.key = NoKey, !.pc = "done", !.rd = 0]]
    /\ UNCHANGED <<key_index, session_key_map, key_usage, key_errors, error_calls>>
    /\ UNCHANGED notThreads

NextThreads ==
    \E t \in Threads :
        \/ ThreadCalls(t)
        \/ ThreadAcquires(t)
        \/ ThreadSteps(t)
        \/ ThreadReleases(t)

SpecThreads == Init /\ [][NextThreads]_vars

(***************************************************************************)
(* get_llm_response and QAAgent.ask                                        *)
(***************************************************************************)
\* outcome of one completion call: the HTTP status of the response, or
\* Transport when requests.post raised without a response
Transport == 0
Outcomes == {200, 429, 401, 403, 500, Transport}

\* raise_for_status raises HTTPError for a 4xx or 5xx response
IsHTTPError(st) == st >= 400

\* truth value of `e.response` (llm.py line 95): requests.Response.__bool__
\* returns Response.ok, which is False for a 4xx or 5xx status
ResponseTruthy(st) == st # Transport /\ st < 400

\* a mutant of FailoverCondition: every HTTP error leads to the fallback
FailoverCondition_any_error(st) == IsHTTPError(st)

\* the failover condition: e.response and e.response.status_code in [429, 401, 403]
FailoverCondition(st) == ResponseTruthy(st) /\ st \in {429, 401, 403}

\* a mutant of NoKeyAvailable: the missing credential is not detected
NoKeyAvailable_unchecked(api_key) == FALSE

\* `if not api_key:` (llm.py line 28)
NoKeyAvailable(api_key) == api_key = NoKey

\* get_llm_response(prompt, ..., session_id): st1 and st2 are the outcomes of
\* the first completion call and of the retry
get_llm_response(p, sid, st1, st2) ==
    LET got == get_key_for_session(p, sid, "round_robin", 1)
        api_key == got.key
        call1 == [key |-> api_key, st |-> st1]
    IN  IF NoKeyAvailable(api_key)
        THEN [calls |-> <<>>,
              result |-> "config_error",
              pool |-> got.pool]
        ELSE IF st1 = 200
        THEN [calls |-> <<call1>>,
              result |-> "answer",
              pool |-> record_success(got.pool, api_key)]
        ELSE IF IsHTTPError(st1)
        THEN LET p1 == record_error(got.pool, api_key)
             IN  IF FailoverCondition(st1)
                 THEN LET fb == get_key_with_fallback(p1, sid, {api_key})
                          call2 == [key |-> fb.key, st |-> st2]
                      IN  IF fb.key # NoKey /\ fb.key # api_key
                          THEN IF st2 = 200
                               THEN [calls |-> <<call1, call2>>,
                                     result |-> "answer",
                                     pool |-> record_success(fb.pool, fb.key)]
                               ELSE [calls |-> <<call1, call2>>,
                                     result |-> "error",
                                     pool |-> fb.pool]
                          ELSE [calls |-> <<call1>>,
                                result |-> "error",
                                pool |-> fb.pool]
                 ELSE [calls |-> <<call1>>,
                       result |-> "error",
                       pool |-> p1]
        ELSE [calls |-> <<call1>>,
              result |-> "error",
              pool |-> record_error(got.pool, api_key)]

\* whether the invocation reaches the retry (st2 is an input only then)
Retries(p, sid, st1) ==
    LET got == get_key_for_session(p, sid, "round_robin", 1)
    IN  /\ got.key # NoKey
        /\ FailoverCondition(st1)
        /\ get_key_with_fallback(record_error(got.pool, got.key), sid, {got.key}).key
              \notin {NoKey, got.key}

\* a caller invokes get_llm_response with a session id
GetLLMResponse(sid) ==
    \E st1 \in Outcomes, st2 \in Outcomes :
        /\ (~Retries(PoolState, sid, st1) => st2 = 200)
        /\ LET res == get_llm_response(PoolState, sid, st1, st2)
           IN  /\ SetPool(res.pool)
               /\ last' = [NoCall EXCEPT !.op = "get_llm_response", !.sid = sid,
                                         !.calls = res.calls, !.result = res.result,
                                         !.prev = IF sid # NoSession
                                                  THEN session_key_map[sid]
                                                  ELSE NoKey]
               /\ first' = IF sid = NoSession \/ keys = <<>> THEN first
                           ELSE IF FailoverCondition(st1)
                           THEN [first EXCEPT ![sid] = NoKey]
                           ELSE IF first[sid] = NoKey
                           THEN [first EXCEPT ![sid] = res.calls[1].key]
                           ELSE first
               /\ error_calls' = AfterCalls(error_calls, res.calls)
        /\ UNCHANGED <<chunks, index, req>>

\* QAAgent.ask on behalf of conversation conv: found tells whether the search
\* returned chunks; the completion call is made without a session id
Ask ==
    \E conv \in Sessions, found \in BOOLEAN, st1 \in Outcomes, st2 \in Outcomes :
        /\ (~found \/ ~Retries(PoolState, NoSession, st1) => st2 = 200)
        /\ (~found => st1 = 200)
        /\ LET res == IF found
                      THEN get_llm_response(PoolState, NoSession, st1, st2)
                      ELSE [calls |-> <<>>,
                            result |-> "empty",
                            pool |-> PoolState]
           IN  /\ SetPool(res.pool)
               /\ last' = [NoCall EXCEPT !.op = "ask", !.sid = conv,
                                         !.calls = res.calls, !.result = res.result,
                                         !.prev = IF /\ last.op = "ask"
                                                     /\ last.sid = conv
                                                     /\ last.result = "answer"
                                                  THEN last.calls[Len(last.calls)].key
                                                  ELSE NoKey]
               /\ error_calls' = AfterCalls(error_calls, res.calls)
        /\ UNCHANGED <<first, chunks, index, req>>

\* callers of the pool: every session and callers without a session id
Callers == Sessions \cup {NoSession}

\* the pool under its assignment operations, for every session
Next ==
    \/ \E sid \in Callers : GetKeyForSession(sid)
    \/ \E sid \in Callers : GetKeyWithFallback(sid)
    \/ \E sid \in Sessions : ClearSession(sid)

Spec == Init /\ [][Next]_vars

\* completion requests: one conversation with a session id and callers
\* without one, with the pool operations their handlers use
LLMCallers == {NoSession, 1}

NextLLM ==
    \/ \E sid \in LLMCallers : GetLLMResponse(sid)
    \/ Ask
    \/ RecordSuccess
    \/ RecordError
    \/ \E sid \in LLMCallers : GetKeyForSession(sid)
    \/ ClearSession(1)

SpecLLM == Init /\ [][NextLLM]_vars

\* the pool under every method of the manager that writes it, called for
\* one conversation with a session id and by callers without one
NextPool ==
    \/ \E sid \in LLMCallers : GetKeyForSession(sid)
    \/ \E sid \in LLMCallers : GetKeyWithFallback(sid)
    \/ ClearSession(1)
    \/ RecordSuccess
    \/ RecordError

SpecPool == Init /\ [][NextPool]_vars

(***************************************************************************)
(* MongoVectorStore and DriveSyncService.sync_now                          *)
(***************************************************************************)
Max(S) == CHOOSE x \in S : \A y \in S : y <= x

\* the tokens of which file f has chunks in collection st
TokensOf(st, f) == {t \in Tokens : st[f][t] > 0}

\* add_texts(texts, embeddings, metadata): n chunks tagged with file f, token t
add_texts(st, f, t, n) == [st EXCEPT ![f][t] = @ + n]

\* a mutant of delete_by_file_id: the filter matches no chunk
delete_by_file_id_nothing(st, f) == st

\* delete_by_file_id(file_id): delete_many on metadata.file_id
delete_by_file_id(st, f) == [st EXCEPT ![f] = [t \in Tokens |-> 0]]

\* get_all_metadata(): file id -> $max of metadata.modified_time over the
\* chunks of the file; a file without chunks has no entry (Absent)
get_all_metadata(st) ==
    [f \in Files |-> IF TokensOf(st, f) = {} THEN Absent ELSE Max(TokensOf(st, f))]

\* the number of chunks extract_text and chunk_text yield from the content of
\* version t of file f: a pure function of the content, between 1 and
\* MaxChunks, and none for one version (no extractable text)
NChunks(f, t) ==
    IF f = MaxFiles /\ t = MaxToken THEN 0 ELSE ((f + t) % MaxChunks) + 1

\* a mutant of IsDirty: every listed file is processed again
IsDirty_always(processed, f, t) == TRUE

\* `file_id not in processed_files or processed_files[file_id] != modified_time`
IsDirty(processed, f, t) == processed[f] = Absent \/ processed[f] # t

\* a mutant of IsUpdate: the old chunks are not cleared before reinsertion
IsUpdate_never(processed, f) == FALSE

\* `if file_id in processed_files:` before delete_by_file_id (line 145)
IsUpdate(processed, f) == processed[f] # Absent

\* the listed files the run processes
DirtyFiles(processed, listing) ==
    {f \in Files : listing[f] # Absent /\ IsDirty(processed, f, listing[f])}

\* a mutant of Produced: a failed download ends the processing of the files
\* after it
Produced_until_failure(listing, failed, f) ==
    IF \E g \in failed : g <= f THEN 0 ELSE NChunks(f, listing[f])

\* the chunks the run obtains for a dirty file: none when _download_file
\* returned None or extract_text returned no text
Produced(listing, failed, f) ==
    IF f \in failed THEN 0 ELSE NChunks(f, listing[f])

\* the body of the `for file in files` loop for one file
ProcessFile(st, processed, listing, failed, f) ==
    IF listing[f] = Absent \/ ~IsDirty(processed, f, listing[f]) THEN st
    ELSE LET cleared == IF IsUpdate(processed, f) THEN delete_by_file_id(st, f)
                        ELSE st
             n == Produced(listing, failed, f)
         IN  IF n > 0 THEN add_texts(cleared, f, listing[f], n) ELSE cleared

\* the `for file in files` loop over the files 1..n of the listing
RECURSIVE ProcessFiles(_, _, _, _, _)
ProcessFiles(st, processed, listing, failed, n) ==
    IF n = 0 THEN st
    ELSE ProcessFile(ProcessFiles(st, processed, listing, failed, n - 1),
                     processed, listing, failed, n)

\* a mutant of files_to_delete: nothing is evicted when the listing is empty
files_to_delete_unless_empty(processed, listing) ==
    IF \A f \in Files : listing[f] = Absent THEN {}
    ELSE {f \in Files : processed[f] # Absent /\ listing[f] = Absent}

\* files_to_delete = existing_db_ids - current_drive_ids
files_to_delete(processed, listing) ==
    {f \in Files : processed[f] # Absent /\ listing[f] = Absent}

\* the `for file_id in files_to_delete` loop
Evict(st, gone) ==
    [f \in Files |-> IF f \in gone THEN delete_by_file_id(st, f)[f] ELSE st[f]]

\* the collection after a run that obtained the listing: processed_files is
\* read once, before the loop, then the files are processed, then evicted
Reconcile(st, processed, listing, failed) ==
    Evict(ProcessFiles(st, processed, listing, failed, MaxFiles),
          files_to_delete(processed, listing))

\* what a run that failed before reconciliation leaves in the history
Aborted(outcome) == [NoCycle EXCEPT !.outcome = outcome]

\* what the four GOOGLE_* variables together hold: not all of them set, the
\* fields of a usable service account, or fields that
\* from_service_account_info rejects
FieldKinds == {"absent", "valid", "unusable"}

\* what GOOGLE_SERVICE_ACCOUNT_JSON or the file service_account.json holds:
\* nothing (unset, no such file), usable service-account info, text that
\* json.loads rejects, JSON of a falsy value such as {}, or JSON that
\* from_service_account_info rejects
SourceKinds == {"absent", "valid", "malformed", "empty", "unusable"}

\* the credential sources of a run: <<fields, bundle, file>>
CredentialSources == FieldKinds \X SourceKinds \X SourceKinds

\* `not creds_info`
Falsy(info) == info \in {"none", "empty"}

\* lines 59-115 of sync_now: creds_info after each of the three steps; a
\* step is skipped when creds_info is set, json.loads and
\* from_service_account_info raise into the `except` of line 113
resolve_credentials(c) ==
    LET step1 == IF c[1] # "absent" THEN c[1] ELSE "none"
        step2 == IF Falsy(step1) /\ c[2] # "absent" THEN c[2] ELSE step1
        step3 == IF Falsy(step2) /\ c[3] # "absent" THEN c[3] ELSE step2
    IN  IF step3 = "malformed" THEN "credentials_error"
        ELSE IF Falsy(step3) THEN "no_credentials"
        ELSE IF step3 = "unusable" THEN "credentials_error"
        ELSE "resolved"

\* one of the sources holds usable credentials
Resolvable(c) == \E i \in 1..3 : c[i] = "valid"

\* the run gets past line 115 with some credential sources
Resolves == \E c \in CredentialSources : resolve_credentials(c) = "resolved"

\* the outcomes of a run that ends before the loop over the files
AbortOutcomes ==
    {"no_credentials", "credentials_error", "service_error", "listing_error"}

\* a mutant of AbortedStore: a listing that failed is taken for an empty one
AbortedStore_evicting(st, outcome) ==
    IF outcome = "listing_error"
    THEN Evict(st, files_to_delete(get_all_metadata(st), [f \in Files |-> Absent]))
    ELSE st

\* the collection when a run returns at line 99 or 115 or when files().list
\* raises (line 129): the run made no call of the collection but
\* get_all_metadata (line 126), which reads
AbortedStore(st, outcome) == st

\* how a run can end before the loop over the files, for every state of the
\* credential sources: without credentials or with an error of their
\* resolution, or, the credentials resolved, with an error of build() or of
\* the listing
AbortedRuns ==
    UNION {{[Aborted(outcome) EXCEPT !.resolvable = Resolvable(c)] :
               outcome \in (IF resolve_credentials(c) = "resolved"
                            THEN {"service_error", "listing_error"}
                            ELSE {resolve_credentials(c)})} :
           c \in CredentialSources}

\* a run of sync_now that returns before reconciliation: no credentials are
\* found (line 99), reading or building them fails (line 115), build()
\* fails (line 112), or get_all_metadata or files().list raises
RunAborts ==
    /\ \E aborted \in AbortedRuns :
           /\ cyc' = aborted
           /\ store' = AbortedStore(store, aborted.outcome)
    /\ UNCHANGED <<keys, key_index, session_key_map, key_usage, key_errors,
                   first, last, error_calls, chunks, index, req, runs,
                   last_sync_time>>

\* a caller runs sync_now and the run returns before reconciliation
SyncAborts == RunAborts /\ UNCHANGED <<loopVars, conc>>

\* the folder listings files().list can return: the modifiedTime of each
\* file of the folder
Listings == [Files -> Tokens \cup {Absent}]

\* a mutant of strftime: the time the service was started
strftime_frozen(clock) == 0

\* time.strftime("%Y-%m-%d %H:%M:%S"): the reading of the clock
strftime(clock) == clock

\* a run of sync_now that obtains one of the folder listings and returns at
\* its end (line 182); failed: the dirty files whose download or extraction
\* fails
RunCompletes(listings) ==
    /\ Resolves
    /\ last_sync_time' = strftime(now)
    /\ \E processed \in {get_all_metadata(store)},
       listing \in listings :
        LET dirty == DirtyFiles(processed, listing)
        IN  \E failed \in SUBSET dirty :
                \E after \in {Reconcile(store, processed, listing, failed)} :
                    /\ store' = after
                    /\ cyc' = [outcome |-> "done",
                               listing |-> listing,
                               failed |-> failed,
                               had |-> {f \in Files : TokensOf(store, f) # {}},
                               stale |-> {f \in Files :
                                            /\ listing[f] # Absent
                                            /\ TokensOf(store, f) \ {listing[f]} # {}},
                               adds |-> Cardinality({f \in dirty :
                                            Produced(listing, failed, f) > 0}),
                               dels |-> Cardinality({f \in dirty : IsUpdate(processed, f)})
                                        + Cardinality(files_to_delete(processed, listing)),
                               changed |-> after # store,
                               sameAsPrev |-> cyc.outcome = "done"
                                              /\ cyc.listing = listing,
                               prevClean |-> cyc.failed = {},
                               dirty |-> dirty,
                               resolvable |-> TRUE]
                    /\ UNCHANGED <<keys, key_index, session_key_map, key_usage,
                                   key_errors, first, last, error_calls,
                                   chunks, index, req, runs>>

\* a caller runs sync_now and the run obtains the folder listing
SyncRuns == RunCompletes(Listings) /\ UNCHANGED <<loopVars, conc>>

\* the calls of the loop body whose exception sync_now does not catch:
\* delete_by_file_id (line 146), generate_embeddings (line 159) and
\* add_texts (line 162)
RaisingSteps == {"delete_by_file_id", "generate_embeddings", "add_texts"}

\* whether the loop body makes the call `step` for file f
MakesStep(processed, listing, failed, f, step) ==
    /\ listing[f] # Absent
    /\ IsDirty(processed, f, listing[f])
    /\ IF step = "delete_by_file_id" THEN IsUpdate(processed, f)
       ELSE Produced(listing, failed, f) > 0

\* how far a failing store call got before it raised: delete_many removed
\* the chunks of the file or not, insert_many wrote m of the documents
Progress(listing, failed, f, step) ==
    IF step = "delete_by_file_id" THEN 0..1
    ELSE IF step = "add_texts" THEN 0..Produced(listing, failed, f)
    ELSE {0}

\* the collection when the call `step` for file f raises: the files before f
\* are processed, the rest of the loop and the deletion logic are skipped
RaisedIn(st, processed, listing, failed, f, step, m) ==
    LET before == ProcessFiles(st, processed, listing, failed, f - 1)
        cleared == IF IsUpdate(processed, f) THEN delete_by_file_id(before, f)
                   ELSE before
    IN  IF step = "delete_by_file_id"
        THEN IF m > 0 THEN cleared ELSE before
        ELSE IF step = "generate_embeddings" THEN cleared
        ELSE add_texts(cleared, f, listing[f], m)

\* a run of sync_now that obtains one of the folder listings and ends in
\* the loop over the files with an exception, which _sync_loop catches
\* (line 44); failed: the downloads that fail before the exception
RunRaises(listings) ==
    /\ Resolves
    /\ \E processed \in {get_all_metadata(store)},
       listing \in listings :
        LET dirty == DirtyFiles(processed, listing)
        IN  \E f \in dirty, step \in RaisingSteps :
              \E failed \in SUBSET {g \in dirty : g < f} :
                /\ MakesStep(processed, listing, failed, f, step)
                /\ \E m \in Progress(listing, failed, f, step) :
                     \E after \in {RaisedIn(store, processed, listing, failed,
                                            f, step, m)} :
                        /\ store' = after
                        /\ cyc' = [outcome |-> "raised",
                                   listing |-> listing,
                                   failed |-> failed,
                                   had |-> {g \in Files : TokensOf(store, g) # {}},
                                   stale |-> {g \in Files :
                                                /\ listing[g] # Absent
                                                /\ TokensOf(store, g) \ {listing[g]} # {}},
                                   adds |-> Cardinality({g \in dirty :
                                                g < f /\ Produced(listing, failed, g) > 0}),
                                   dels |-> Cardinality({g \in dirty :
                                                /\ IsUpdate(processed, g)
                                                /\ (g < f \/ (g = f /\ step # "delete_by_file_id"))}),
                                   changed |-> after # store,
                                   sameAsPrev |-> cyc.outcome = "done"
                                                  /\ cyc.listing = listing,
                                   prevClean |-> cyc.failed = {},
                               dirty |-> dirty,
                               resolvable |-> TRUE]
                /\ UNCHANGED <<keys, key_index, session_key_map, key_usage,
                               key_errors, first, last, error_calls,
                               chunks, index, req, runs, last_sync_time>>

\* a caller runs sync_now and an exception ends the loop over the files
SyncRaises == RunRaises(Listings) /\ UNCHANGED <<loopVars, conc>>

\* a run of sync_now, from the timer loop or from the sync-now trigger
SyncNow == SyncAborts \/ SyncRuns

NextSync == SyncNow

\* the sync engine alone: no credential of the completion API is configured
InitNoKeys ==
    /\ keys = <<>>
    /\ InitPool
    /\ InitSync
    /\ InitLocal

SpecSync == InitNoKeys /\ [][NextSync]_vars

\* the sync engine with the runs that an exception of the embedding model or
\* of the collection ends
NextFaults == SyncAborts \/ SyncRuns \/ SyncRaises

SpecFaults == InitNoKeys /\ [][NextFaults]_vars

(***************************************************************************)
(* Overlapping runs of sync_now: the timer-driven run and the triggered    *)
(* run are threads that share the collection; each call of the collection  *)
(* is one step                                                             *)
(***************************************************************************)
\* the variables a step of a run leaves alone
notSync == <<keys, key_index, session_key_map, key_usage, key_errors, first,
             last, cyc, error_calls, chunks, index, req, loopVars, conc>>

\* run r begins: credentials resolve, get_all_metadata (line 126) and
\* files().list (line 129); the runs in progress obtain the same listing
Begin(r) ==
    /\ runs.of[r].pc = "idle"
    /\ Resolves
    /\ \E listing \in [Files -> Tokens \cup {Absent}] :
          /\ (\E q \in Runners : runs.of[q].pc # "idle") => listing = runs.listing
          /\ runs' = [runs EXCEPT
                        !.of[r] = [pc |-> "loop", pos |-> 1,
                                   processed |-> get_all_metadata(store)],
                        !.listing = listing,
                        !.before = IF \A q \in Runners : runs.of[q].pc = "idle"
                                   THEN store ELSE @]
    /\ UNCHANGED <<store, last_sync_time>>
    /\ UNCHANGED notSync

\* run r visits file pos (lines 137-158): a file that is not dirty is passed
\* over; the old chunks of a modified file are deleted; the file is
\* downloaded (ok: the download and the extraction succeed) and chunked
Visit(r) ==
    LET run == runs.of[r]
        f == run.pos
    IN  /\ run.pc = "loop"
        /\ f <= MaxFiles
        /\ IF runs.listing[f] = Absent \/ ~IsDirty(run.processed, f, runs.listing[f])
           THEN /\ runs' = [runs EXCEPT !.of[r].pos = f + 1]
                /\ UNCHANGED store
           ELSE \E ok \in BOOLEAN :
                  /\ store' = IF IsUpdate(run.processed, f)
                              THEN delete_by_file_id(store, f) ELSE store
                  /\ runs' = IF ok /\ NChunks(f, runs.listing[f]) > 0
                             THEN [runs EXCEPT !.of[r].pc = "add"]
                             ELSE [runs EXCEPT !.of[r].pos = f + 1,
                                               !.clean = @ /\ ok]
        /\ UNCHANGED last_sync_time
        /\ UNCHANGED notSync

\* run r stores the chunks of file pos (lines 159-162)
Add(r) ==
    LET run == runs.of[r]
        f == run.pos
    IN  /\ run.pc = "add"
        /\ store' = add_texts(store, f, runs.listing[f], NChunks(f, runs.listing[f]))
        /\ runs' = [runs EXCEPT !.of[r].pc = "loop", !.of[r].pos = f + 1]
        /\ UNCHANGED last_sync_time
        /\ UNCHANGED notSync

\* a mutant of Finish: the deletion logic runs before the loop over the
\* files has ended
Finish_interleaved(r) ==
    LET run == runs.of[r]
    IN  /\ run.pc = "loop"
        /\ store' = Evict(store, files_to_delete(run.processed, runs.listing))
        /\ runs' = [runs EXCEPT !.of[r].pc = "done"]
        /\ last_sync_time' = strftime(now)
        /\ UNCHANGED notSync

\* run r, past the last file, deletes the chunks of the files of its
\* processed_files that the listing lacks (lines 167-174), records the time
\* (line 182) and ends; no run in progress adds chunks of such a file
Finish(r) ==
    LET run == runs.of[r]
    IN  /\ run.pc = "loop"
        /\ run.pos = MaxFiles + 1
        /\ store' = Evict(store, files_to_delete(run.processed, runs.listing))
        /\ runs' = [runs EXCEPT !.of[r].pc = "done"]
        /\ last_sync_time' = strftime(now)
        /\ UNCHANGED notSync

\* the collections a run of sync_now without failures leaves when it starts
\* on the empty collection
SyncedStores ==
    {Reconcile([f \in Files |-> [t \in Tokens |-> 0]],
               [f \in Files |-> Absent], listing, {}) :
        listing \in [Files -> Tokens \cup {Absent}]}

\* the timer-driven run and the triggered run on a synchronized collection
InitOverlap ==
    /\ keys = <<>>
    /\ InitPool
    /\ store \in SyncedStores
    /\ cyc = NoCycle
    /\ runs = NoRuns
    /\ folder_id = "folder"
    /\ InitService
    /\ InitLocal

NextOverlap == \E r \in Runners : Begin(r) \/ Visit(r) \/ Add(r) \/ Finish(r)

SpecOverlap == InitOverlap /\ [][NextOverlap]_vars

(***************************************************************************)
(* DriveSyncService: start, stop and the threads that run _sync_loop       *)
(***************************************************************************)
\* a mutant of LoopContinues: the loop does not read the event
LoopContinues_always(event) == TRUE

\* the condition of `while not self.stop_event.is_set()` (line 40)
LoopContinues(event) == ~event

\* a mutant of SleepAfter: only a cycle that completed is followed by the sleep
SleepAfter_completed_only(outcome) == IF outcome = "done" THEN SleepTicks ELSE 0

\* time.sleep(300) (line 48) stands behind the `try` and the `if`: the
\* thread sleeps whatever became of the cycle, and when it ran none
SleepAfter(outcome) == SleepTicks

\* the variables start() and stop() leave alone
notService == <<keys, key_index, session_key_map, key_usage, key_errors, first,
                last, store, cyc, error_calls, chunks, index, req, runs,
                folder_id, last_sync_time, now, conc>>

\* start(): when the service is not syncing, the flag is raised, the event
\* cleared and a new thread created
Start ==
    /\ IF ~is_syncing
       THEN \E t \in Loops :
              /\ loops[t].pc = "none"
              /\ \A u \in Loops : u < t => loops[u].pc # "none"
              /\ is_syncing' = TRUE
              /\ stop_event' = FALSE
              /\ loops' = [loops EXCEPT ![t].pc = "check"]
       ELSE UNCHANGED <<is_syncing, stop_event, loops>>
    /\ UNCHANGED notService

\* stop(): the event is set and the flag lowered
Stop ==
    /\ stop_event' = TRUE
    /\ is_syncing' = FALSE
    /\ loops' = [t \in Loops |->
                   IF loops[t].pc = "cycle" THEN [loops[t] EXCEPT !.stopped = TRUE]
                   ELSE loops[t]]
    /\ UNCHANGED notService

\* thread t is at the condition of the `while` (lines 40-41), when it is
\* created and when its sleep is over: it ends when the event is set, else
\* it enters sync_now when a folder is configured, else it sleeps
LoopCheck(t) ==
    /\ \/ loops[t].pc = "check"
       \/ loops[t].pc = "sleep" /\ loops[t].wait = 0
    /\ loops' = [loops EXCEPT ![t] =
                   IF ~LoopContinues(stop_event) THEN [NoLoop EXCEPT !.pc = "ended"]
                   ELSE IF folder_id # NoFolder
                        THEN [@ EXCEPT !.pc = "cycle", !.stopped = FALSE]
                   ELSE [@ EXCEPT !.pc = "sleep", !.wait = SleepAfter("skipped")]]
    /\ UNCHANGED <<keys, key_index, session_key_map, key_usage, key_errors, first,
                   last, store, cyc, error_calls, chunks, index, req, runs,
                   folder_id, is_syncing, stop_event, last_sync_time, now, conc>>

\* the listings of a folder that is empty or holds the first file in its
\* first version
OneFileListings ==
    {listing \in Listings : /\ listing[1] \in {Absent, 1}
                            /\ \A f \in Files \ {1} : listing[f] = Absent}

\* the sync_now of thread t ends (lines 42-48): it returns, or it raises
\* and the `except` of the loop catches the exception; the thread sleeps
LoopCycle(t) ==
    /\ loops[t].pc = "cycle"
    /\ \/ RunAborts
       \/ RunCompletes(OneFileListings)
       \/ RunRaises(OneFileListings)
    /\ loops' = [loops EXCEPT ![t].pc = "sleep",
                              ![t].wait = SleepAfter(cyc'.outcome),
                              ![t].ran = TRUE,
                              ![t].since = 0]
    /\ UNCHANGED <<folder_id, is_syncing, stop_event, now, conc>>

\* time passes: one tick of the clock and of every sleep
Tick ==
    /\ now' = IF now < MaxTime THEN now + 1 ELSE now
    /\ loops' = [t \in Loops |->
                   [loops[t] EXCEPT !.wait = IF @ > 0 THEN @ - 1 ELSE 0,
                                    !.since = IF loops[t].ran /\ @ < SleepTicks
                                              THEN @ + 1 ELSE @]]
    /\ UNCHANGED <<keys, key_index, session_key_map, key_usage, key_errors, first,
                   last, store, cyc, error_calls, chunks, index, req, runs,
                   folder_id, is_syncing, stop_event, last_sync_time, conc>>

\* the service after its construction (main.py line 72), with or without a
\* configured folder, on the empty collection
InitLoops ==
    /\ keys = <<>>
    /\ InitPool
    /\ store = [f \in Files |-> [t \in Tokens |-> 0]]
    /\ cyc = NoCycle
    /\ runs = NoRuns
    /\ folder_id \in Folders
    /\ InitService
    /\ InitLocal

NextLoops ==
    \/ Start
    \/ Stop
    \/ Tick
    \/ \E t \in Loops : LoopCheck(t)
    \/ \E t \in Loops : LoopCycle(t)

SpecLoops == InitLoops /\ [][NextLoops]_vars

\* the threads are scheduled, a call of sync_now returns or raises, and time
\* passes
SpecLoopsFair ==
    /\ InitLoops
    /\ [][NextLoops]_vars
    /\ WF_vars(Tick)
    /\ \A t \in Loops : WF_vars(LoopCheck(t)) /\ WF_vars(LoopCycle(t))

(***************************************************************************)
(* VectorStore (the local store) and upload_pdf                            *)
(***************************************************************************)
\* k of self.vector_store.search(query_emb, k=5) in QAAgent.ask
K == 5

\* the texts chunk_text yields from the text of document d
LocalChunks(d) == [i \in 1..NChunks(d, 1) |-> <<d, i>>]

\* generate_embeddings(texts): one vector per text, in order
generate_embeddings(texts) == [i \in DOMAIN texts |-> [of |-> texts[i]]]

\* the local store as its methods read and write it
LocalStore == [chunks |-> chunks, index |-> index, raised |-> FALSE]

\* a mutant of add_texts of VectorStore: the lengths are not compared
local_add_texts_unchecked(ls, texts, embeddings) ==
    [ls EXCEPT !.index = ls.index \o embeddings, !.chunks = ls.chunks \o texts]

\* VectorStore.add_texts(texts, embeddings): ValueError on a length mismatch,
\* else index.add(embeddings) and chunks.extend(texts)
local_add_texts(ls, texts, embeddings) ==
    IF Len(texts) # Len(embeddings) THEN [ls EXCEPT !.raised = TRUE]
    ELSE [ls EXCEPT !.index = ls.index \o embeddings, !.chunks = ls.chunks \o texts]

\* index.reset() and chunks = [] of upload_pdf
local_reset(ls) == [ls EXCEPT !.index = <<>>, !.chunks = <<>>]

Min(a, b) == IF a <= b THEN a ELSE b

\* the sets of index positions index.search can return for a query: the
\* min(k, ntotal) nearest vectors, whichever they are for the query
Nearest(ls, k) ==
    {S \in SUBSET DOMAIN ls.index : Cardinality(S) = Min(k, Len(ls.index))}

\* VectorStore.search(query_embedding, k) when the index ranks the positions S
\* nearest: the texts at these positions; chunks[idx] raises IndexError for
\* a position outside the text list
local_search(ls, S) ==
    IF Len(ls.index) = 0 THEN [raised |-> FALSE, hits |-> {}]
    ELSE IF \E i \in S : i \notin DOMAIN ls.chunks
         THEN [raised |-> TRUE, hits |-> {}]
    ELSE [raised |-> FALSE, hits |-> {ls.chunks[i] : i \in S}]

\* the label faiss gives a result slot it cannot fill (vector_store.py line 30)
NoHit == -1

\* what index.search(query, k) can return for a query at distance dist[i]
\* of the vector at position i: k slots of (label, distance); the first
\* min(k, ntotal) hold the labels (0-based) of nearest vectors by
\* non-decreasing distance, ties in any order, the others hold NoHit
index_search(dist, k) ==
    LET n == Len(dist)
        m == Min(k, n)
        Ranked == {l \in [1..m -> 0..(n - 1)] :
                     /\ \A i \in 1..m, j \in 1..m : i < j =>
                           l[i] # l[j] /\ dist[l[i] + 1] <= dist[l[j] + 1]
                     /\ \A p \in 0..(n - 1) :
                           (\A i \in 1..m : l[i] # p) =>
                              \A i \in 1..m : dist[l[i] + 1] <= dist[p + 1]}
    IN  {[i \in 1..k |-> IF i <= m
                         THEN [idx |-> l[i], distance |-> dist[l[i] + 1]]
                         ELSE [idx |-> NoHit, distance |-> MaxDist + 1]] :
            l \in Ranked}

\* a mutant of IsHit: the unfilled slots are taken for results
IsHit_always(idx) == TRUE

\* `if idx != -1:`
IsHit(idx) == idx # NoHit

\* VectorStore.search(query_embedding, k) when index.search returns R:
\* nothing on an empty index, else the pair (chunks[idx], distance) of each
\* slot that holds a label; chunks[idx] counts a negative idx from the end
\* and raises IndexError outside the list
search(ls, R) ==
    IF Len(ls.index) = 0 THEN [raised |-> FALSE, results |-> <<>>]
    ELSE LET kept == SelectSeq(R, LAMBDA slot : IsHit(slot.idx))
             at(idx) == IF idx < 0 THEN Len(ls.chunks) + idx + 1 ELSE idx + 1
         IN  IF \E i \in DOMAIN kept : at(kept[i].idx) \notin DOMAIN ls.chunks
             THEN [raised |-> TRUE, results |-> <<>>]
             ELSE [raised |-> FALSE,
                   results |-> [i \in DOMAIN kept |->
                                   [text |-> ls.chunks[at(kept[i].idx)],
                                    distance |-> kept[i].distance]]]

(***************************************************************************)
(* QAAgent.ask: retrieval, completion and the sources of the answer        *)
(***************************************************************************)
\* an answer text is a sequence of tokens: the tag opener "[Source:", the
\* closing bracket, white space, the bold marker "**", the name of a file,
\* the word "Unknown", and any other text
Open == <<"[Source:">>
Close == <<"]">>
Space == <<" ">>
Bold == <<"**">>
Word == <<"word">>
Unknown == <<"Unknown">>
Name(f) == <<"file", f>>

\* the value of file_name in the metadata of a chunk of file f
FileName(f) == <<Name(f)>>
\* the default of meta.get('file_name', 'Unknown File')
UnknownFile == << <<"Unknown File">> >>
\* a chunk without file_name in its metadata
NoName == <<>>

\* a file name with a closing bracket in it, as in "report [1].pdf"
Bracketed == <<Name(1), Close, Word>>

\* the names a model can write in a source tag: a file name, "Unknown", nothing
TagNames == {FileName(f) : f \in Files} \cup {Bracketed, <<Unknown>>, <<>>}
\* how it writes the tag: "[Source: n]", "[Source: **n**]", "[Source:n ]"
TagStyles == {"plain", "bold", "padded"}

\* the pieces a model composes its answer of: text outside tags, and tags
Segments ==
    {[kind |-> "plain", tok |-> t, name |-> <<>>, style |-> "plain"] :
        t \in {Word, Close, Bold}}
    \cup {[kind |-> "tag", tok |-> Open, name |-> n, style |-> st] :
              n \in TagNames, st \in TagStyles}

\* the text of one piece
RenderSegment(seg) ==
    IF seg.kind = "plain" THEN <<seg.tok>>
    ELSE IF seg.style = "plain" THEN <<Open, Space>> \o seg.name \o <<Close>>
    ELSE IF seg.style = "bold"
         THEN <<Open, Space, Bold>> \o seg.name \o <<Bold, Close>>
    ELSE <<Open>> \o seg.name \o <<Space, Close>>

\* the text the completion returns for the pieces segs
RECURSIVE Render(_)
Render(segs) ==
    IF segs = <<>> THEN <<>>
    ELSE RenderSegment(Head(segs)) \o Render(Tail(segs))

\* the names the pieces cite: of every tag with a non-empty name other
\* than "Unknown"
CitedNames(segs) ==
    {segs[i].name : i \in {j \in DOMAIN segs : /\ segs[j].kind = "tag"
                                               /\ segs[j].name # <<>>
                                               /\ segs[j].name # <<Unknown>>}}

\* response.strip(), then `while response.endswith("**")`: the trailing
\* white space and bold markers are removed
RECURSIVE strip_trailing(_)
strip_trailing(toks) ==
    IF toks # <<>> /\ toks[Len(toks)] \in {Space, Bold}
    THEN strip_trailing(SubSeq(toks, 1, Len(toks) - 1))
    ELSE toks

\* str.strip() of a token sequence
RECURSIVE strip(_)
strip(toks) ==
    IF toks # <<>> /\ Head(toks) = Space THEN strip(Tail(toks))
    ELSE IF toks # <<>> /\ toks[Len(toks)] = Space
         THEN strip(SubSeq(toks, 1, Len(toks) - 1))
    ELSE toks

\* the clean-up of the response before the sources are extracted
clean_response(toks) == strip_trailing(strip(toks))

\* re.findall(r'\[Source:\s*(.*?)\]', response): from the first opener, the
\* white space is skipped and the group runs to the first closing bracket;
\* the scan goes on behind that bracket
RECURSIVE findall(_)
findall(toks) ==
    LET opens == {i \in DOMAIN toks : toks[i] = Open}
    IN  IF opens = {} THEN <<>>
        ELSE LET i == CHOOSE x \in opens : \A y \in opens : x <= y
                 closes == {j \in DOMAIN toks : j > i /\ toks[j] = Close}
             IN  IF closes = {} THEN <<>>
                 ELSE LET j == CHOOSE x \in closes : \A y \in closes : x <= y
                          text == {a \in (i + 1)..j : toks[a] # Space}
                          a == CHOOSE x \in text : \A y \in text : x <= y
                      IN  <<SubSeq(toks, a, j - 1)>>
                          \o findall(SubSeq(toks, j + 1, Len(toks)))

\* src.replace('**', '').strip()
clean_source(src) == strip(SelectSeq(src, LAMBDA t : t # Bold))

\* clean_cited_sources, as a set: the cleaned groups that are not empty
\* and not 'Unknown'
clean_cited_sources(toks) ==
    {c \in {clean_source(src) : src \in Range(findall(toks))} :
        c # <<>> /\ c # <<Unknown>>}

\* a retrieved chunk: a (text, score, metadata) tuple of MongoVectorStore
\* with the file_name of its metadata, or a (text, score) pair of VectorStore
DriveHit(f) == [tuple3 |-> TRUE, file_name |-> FileName(f)]
LocalHit == [tuple3 |-> FALSE, file_name |-> NoName]

\* sources_set: the file names of the retrieved 3-tuples, 'Unknown File'
\* standing for a missing file_name and being left out
sources_set(hits) ==
    {src \in {IF h.file_name = NoName THEN UnknownFile ELSE h.file_name :
                h \in {x \in hits : x.tuple3}} : src # UnknownFile}

\* final_sources: the cited sources, or all candidates when none is cited
final_sources(toks, candidates) ==
    LET cited == clean_cited_sources(toks)
    IN  IF cited = {} THEN candidates ELSE cited

\* the text of "Error: ..." that get_llm_response returns on a failure
ErrorText == <<Word>>

\* QAAgent.ask(question) when the search returned found (.raised, .hits),
\* the completion calls end with st1 and st2 and the model writes segs
agent_ask(p, found, st1, st2, segs) ==
    IF found.raised
    THEN [calls |-> <<>>,
          raised |-> TRUE,
          answer |-> "none",
          sources |-> {},
          completion |-> "none",
          text |-> <<>>,
          pool |-> p]
    ELSE IF found.hits = {}
    THEN [calls |-> <<>>,
          raised |-> FALSE,
          answer |-> "empty",
          sources |-> {},
          completion |-> "none",
          text |-> <<>>,
          pool |-> p]
    ELSE LET res == get_llm_response(p, NoSession, st1, st2)
             response == clean_response(IF res.result = "answer"
                                        THEN Render(segs) ELSE ErrorText)
         IN  [calls |-> res.calls,
              raised |-> FALSE,
              answer |-> IF res.result = "answer" THEN "llm" ELSE "error",
              sources |-> final_sources(response, sources_set(found.hits)),
              completion |-> res.result,
              text |-> response,
              pool |-> res.pool]

(***************************************************************************)
(* The request handlers of main.py                                         *)
(***************************************************************************)
\* what becomes of an uploaded file: text and chunks are extracted ("ok"),
\* extract_text returns no text, its processing raises, or its extension
\* is not an allowed one
UploadKinds == {"ok", "no_text", "error", "unsupported"}

RECURSIVE Ascending(_)
Ascending(S) ==
    IF S = {} THEN <<>>
    ELSE Append(Ascending(S \ {Max(S)}), Max(S))

Reverse(seq) == [i \in DOMAIN seq |-> seq[Len(seq) + 1 - i]]

\* the file list of an upload: the documents u gives a kind, in ascending
\* or in descending order
Batch(u, rev) ==
    LET docs == Ascending({d \in Files : u[d] # "absent"})
        order == IF rev THEN Reverse(docs) ELSE docs
    IN  [i \in DOMAIN order |-> [kind |-> u[order[i]],
                                 doc |-> order[i]]]

\* the second `for file in files` loop of upload_pdf over the first n files
RECURSIVE process_uploads(_, _, _)
process_uploads(ls, files, n) ==
    IF n = 0 THEN [processed |-> <<>>,
                   ls |-> ls,
                   total |-> 0]
    ELSE LET prev == process_uploads(ls, files, n - 1)
             file == files[n]
             texts == LocalChunks(file.doc)
             added == local_add_texts(prev.ls, texts, generate_embeddings(texts))
         IN  IF file.kind # "ok" \/ added.raised THEN prev
             ELSE [processed |-> Append(prev.processed, file.doc),
                   ls |-> added,
                   total |-> prev.total + Len(texts)]

\* QAAgent.get_initial_suggestions: the default questions for an empty
\* store, else one completion request without a session id
get_initial_suggestions(p, ls, st1, st2) ==
    IF ls.chunks = <<>> THEN [calls |-> <<>>,
                              result |-> "none",
                              pool |-> p]
    ELSE get_llm_response(p, NoSession, st1, st2)

\* a mutant of the reset of upload_pdf: the previous batch is kept
upload_reset_skipped(ls) == ls

\* the reset of upload_pdf (lines 91-92)
upload_reset(ls) == local_reset(ls)

\* a mutant of upload_pdf: the store is reset before the extensions are
\* checked
upload_pdf_reset_first(p, ls, files, st1, st2) ==
    IF \E i \in DOMAIN files : files[i].kind = "unsupported"
    THEN [calls |-> <<>>,
          processed |-> <<>>,
          status |-> 400,
          completion |-> "none",
          count |-> 0,
          pool |-> p,
          ls |-> upload_reset(ls)]
    ELSE LET done == process_uploads(upload_reset(ls), files, Len(files))
             sug == get_initial_suggestions(p, done.ls, st1, st2)
         IN  [calls |-> sug.calls,
              processed |-> done.processed,
              status |-> 200,
              completion |-> sug.result,
              count |-> done.total,
              pool |-> sug.pool,
              ls |-> done.ls]

\* upload_pdf(files)
upload_pdf(p, ls, files, st1, st2) ==
    IF \E i \in DOMAIN files : files[i].kind = "unsupported"
    THEN [calls |-> <<>>,
          processed |-> <<>>,
          status |-> 400,
          completion |-> "none",
          count |-> 0,
          pool |-> p,
          ls |-> ls]
    ELSE LET done == process_uploads(upload_reset(ls), files, Len(files))
             sug == get_initial_suggestions(p, done.ls, st1, st2)
         IN  [calls |-> sug.calls,
              processed |-> done.processed,
              status |-> 200,
              completion |-> sug.result,
              count |-> done.total,
              pool |-> sug.pool,
              ls |-> done.ls]

\* what a handler answers without a question-answering result
NoAnswer(status, p) ==
    [calls |-> <<>>,
     status |-> status,
     raised |-> FALSE,
     answer |-> "none",
     sources |-> {},
     completion |-> "none",
     hits |-> {},
     text |-> <<>>,
     pool |-> p]

\* the response of a handler to the result r of QAAgent.ask
Answered(r, hits, p) ==
    IF r.raised THEN [NoAnswer(500, p) EXCEPT !.raised = TRUE]
    ELSE [calls |-> r.calls,
          status |-> 200,
          raised |-> FALSE,
          answer |-> r.answer,
          sources |-> r.sources,
          completion |-> r.completion,
          hits |-> hits,
          text |-> r.text,
          pool |-> r.pool]

\* `if len(local_vector_store.chunks) == 0` of ask_question
LocalEmpty(ls) == Len(ls.chunks) = 0

\* ask_question(payload), the /ask handler over local_agent; S: the index
\* positions the search ranks nearest
ask_question(p, ls, question, S, st1, st2, segs) ==
    IF ~question THEN NoAnswer(400, p)
    ELSE IF LocalEmpty(ls) THEN NoAnswer(400, p)
    ELSE LET found == local_search(ls, S)
             hits == {LocalHit : t \in found.hits}
         IN  Answered(agent_ask(p, [raised |-> found.raised, hits |-> hits],
                                st1, st2, segs), hits, p)

\* ask_drive_question(payload), the /drive/ask handler over drive_agent;
\* search_ok: the aggregation of MongoVectorStore.search does not raise,
\* S: the files of which it returns chunks
ask_drive_question(p, question, search_ok, S, st1, st2, segs) ==
    IF ~question THEN NoAnswer(400, p)
    ELSE LET hits == {DriveHit(f) : f \in S}
         IN  Answered(agent_ask(p, [raised |-> ~search_ok, hits |-> hits],
                                st1, st2, segs), hits, p)

\* the largest number of texts the local store holds after a direct call of
\* add_texts in the model
MaxLocal == MaxChunks + 1

\* a caller invokes add_texts of the local store with the texts of one
\* document and the vectors of one document
LocalAddTexts ==
    \E d \in Files, e \in Files :
        LET texts == LocalChunks(d)
            after == local_add_texts(LocalStore, texts,
                                     generate_embeddings(LocalChunks(e)))
        IN  /\ Len(after.chunks) <= MaxLocal
            /\ Len(after.index) <= MaxLocal
            /\ chunks' = after.chunks
            /\ index' = after.index
            /\ req' = [NoReq EXCEPT !.op = "add_texts", !.raised = after.raised,
                                    !.before = IF after.raised THEN chunks
                                               ELSE <<>>]
            /\ UNCHANGED <<keys, key_index, session_key_map, key_usage, key_errors,
                           first, last, store, cyc, error_calls, runs,
                           last_sync_time, loopVars, conc>>

\* the pool and its history after a handler made the completion calls
SetPoolAfter(op, res) ==
    /\ SetPool(res.pool)
    /\ last' = [NoCall EXCEPT !.op = op]
    /\ error_calls' = AfterCalls(error_calls, res.calls)
    /\ UNCHANGED first

\* the outcomes of completion calls that are not made are not inputs:
\* those of the first call when the handler makes one (made), of the retry
\* when a request without session id retries after st1
FirstOutcomes(made) == IF made THEN Outcomes ELSE {200}
RetryOutcomes(made, st1) ==
    IF made /\ Retries(PoolState, NoSession, st1) THEN Outcomes ELSE {200}

\* a client posts files to /upload-pdf; kinds: what can become of the files
Upload(kinds) ==
    \E u \in [Files -> kinds \cup {"absent"}], rev \in BOOLEAN :
      \E files \in {Batch(u, rev)} :
        /\ files # <<>>
        /\ (rev => Len(files) >= 2)
        /\ \E made \in {upload_pdf(PoolState, LocalStore, files, 200, 200).calls # <<>>} :
           \E st1 \in FirstOutcomes(made) : \E st2 \in RetryOutcomes(made, st1) :
           \E res \in {upload_pdf(PoolState, LocalStore, files, st1, st2)} :
            /\ SetPoolAfter("upload_pdf", res)
            /\ chunks' = res.ls.chunks
            /\ index' = res.ls.index
            /\ req' = [NoReq EXCEPT !.op = "upload_pdf", !.status = res.status,
                                    !.files = files, !.processed = res.processed,
                                    !.count = res.count,
                                    !.completion = res.completion,
                                    !.ncalls = Len(res.calls),
                                    !.dropped = \E t \in Range(chunks) :
                                                   t \notin Range(res.ls.chunks),
                                    !.before = IF res.status = 200 THEN <<>>
                                               ELSE chunks]

\* the request history after a question-answering handler
AskReq(op, res, question, corpus) ==
    [NoReq EXCEPT !.op = op, !.status = res.status, !.raised = res.raised,
                  !.answer = res.answer,
                  !.sources = res.sources, !.completion = res.completion,
                  !.ncalls = Len(res.calls), !.hits = res.hits,
                  !.text = res.text, !.question = question,
                  !.corpus = corpus]

\* a client posts to /ask; texts: the answers the completion model can give
AskQuestion(texts) ==
    \E question \in BOOLEAN, S \in Nearest(LocalStore, K) :
      \E made \in {ask_question(PoolState, LocalStore, question, S,
                                 200, 200, <<>>).calls # <<>>} :
      \E st1 \in FirstOutcomes(made) : \E st2 \in RetryOutcomes(made, st1) :
      \E answered \in {ask_question(PoolState, LocalStore, question, S,
                                     st1, st2, <<>>).completion = "answer"} :
      \E segs \in IF answered THEN texts ELSE {<<>>} :
      \E res \in {ask_question(PoolState, LocalStore, question, S, st1, st2, segs)} :
            /\ SetPoolAfter("ask_question", res)
            /\ req' = AskReq("ask_question", res, question, Len(chunks))
            /\ UNCHANGED <<chunks, index>>

\* the files that have chunks in the collection
Indexed(st) == {f \in Files : TokensOf(st, f) # {}}

\* the number of documents of the collection
CountDocuments(st) == SumTo([f \in Files |-> SumTo(st[f], MaxToken)], MaxFiles)

\* a client posts to /drive/ask
AskDriveQuestion(texts) ==
    \E question \in BOOLEAN :
      \E search_ok \in IF question THEN BOOLEAN ELSE {TRUE} :
      \E S \in IF question /\ search_ok THEN SUBSET Indexed(store) ELSE {{}} :
      \E made \in {ask_drive_question(PoolState, question, search_ok, S,
                                       200, 200, <<>>).calls # <<>>} :
      \E st1 \in FirstOutcomes(made) : \E st2 \in RetryOutcomes(made, st1) :
      \E answered \in {ask_drive_question(PoolState, question, search_ok, S,
                                           st1, st2, <<>>).completion = "answer"} :
      \E segs \in IF answered THEN texts ELSE {<<>>} :
      \E res \in {ask_drive_question(PoolState, question, search_ok, S,
                                      st1, st2, segs)} :
            /\ SetPoolAfter("ask_drive_question", res)
            /\ req' = AskReq("ask_drive_question", res, question,
                             CountDocuments(store))
            /\ UNCHANGED <<chunks, index>>

\* the answers of the completion model in the specification of the local
\* batch: without a source tag, or citing the first file
LocalAnswers ==
    {<<>>, <<[kind |-> "tag", tok |-> Open, name |-> FileName(1), style |-> "plain"]>>}

\* the local batch and its requests while no credential of the completion
\* API is configured
NextLocal ==
    \/ Upload(UploadKinds)
    \/ LocalAddTexts
    \/ AskQuestion(LocalAnswers)
    \/ AskDriveQuestion(LocalAnswers)

SpecLocal == InitNoKeys /\ [][NextLocal]_vars

\* a caller invokes search of the local store with a query and a k; a
\* search leaves the store as it is, so a search that follows a search
\* reaches nothing new and is left out
Search ==
    /\ req.op # "search"
    /\ \E k \in 1..(MaxLocal + 1), dist \in [DOMAIN index -> 0..MaxDist] :
          \E R \in index_search(dist, k) :
              LET res == search(LocalStore, R)
              IN  req' = [NoReq EXCEPT !.op = "search", !.raised = res.raised,
                                      !.k = k, !.dist = dist,
                                      !.results = res.results]
    /\ UNCHANGED <<keys, key_index, session_key_map, key_usage,
                   key_errors, first, last, store, cyc, error_calls,
                   chunks, index, runs, last_sync_time, loopVars, conc>>

\* the local store under add_texts and search
NextSearch ==
    \/ LocalAddTexts
    \/ Search

SpecSearch == InitNoKeys /\ [][NextSearch]_vars

\* the collection after the first sync of a folder that holds file 1
OneFileStore ==
    add_texts([f \in Files |-> [t \in Tokens |-> 0]], 1, 1, NChunks(1, 1))

\* the question-answering requests with at most one credential configured,
\* over an empty collection or the collection of a synchronized folder
InitAsk ==
    /\ keys \in {kl \in KeyLists : Len(kl) <= 1}
    /\ InitPool
    /\ store \in {[f \in Files |-> [t \in Tokens |-> 0]], OneFileStore}
    /\ cyc = NoCycle
    /\ runs = NoRuns
    /\ folder_id = "folder"
    /\ InitService
    /\ InitLocal

NextAsk ==
    \/ Upload({"ok"})
    \/ AskQuestion(LocalAnswers)
    \/ AskDriveQuestion(LocalAnswers)

SpecAsk == InitAsk /\ [][NextAsk]_vars

\* the answer texts of the completion model: up to MaxSegs pieces
Answers == UNION {[1..n -> Segments] : n \in 0..MaxSegs}

\* what a search returns to QAAgent.ask when it finds chunks: 3-tuples of
\* the collection, of files with a plain name, with a bracket in the name or
\* without file_name in the metadata, or 2-tuples of the local store
Retrievals ==
    {hits \in SUBSET ({DriveHit(f) : f \in Files}
                      \cup {[tuple3 |-> TRUE, file_name |-> Bracketed],
                            [tuple3 |-> TRUE, file_name |-> NoName]}) : hits # {}}
    \cup {{LocalHit}}

\* steps 3 to 5 of QAAgent.ask on a completion that answered (lines 81-199):
\* the candidates of the retrieved chunks, the clean-up of the response and
\* the sources of the answer
ExtractSources ==
    \E segs \in Answers, hits \in Retrievals :
        LET response == clean_response(Render(segs))
        IN  /\ req = NoReq
            /\ req' = [NoReq EXCEPT !.op = "final_sources",
                                    !.sources = final_sources(response,
                                                              sources_set(hits)),
                                    !.hits = hits,
                                    !.text = response,
                                    !.segs = segs]
            /\ UNCHANGED <<keys, key_index, session_key_map, key_usage,
                           key_errors, first, last, store, cyc, error_calls,
                           chunks, index, runs, last_sync_time, loopVars, conc>>

\* the conversation histories a caller passes to QAAgent.ask: the messages
\* are told apart by a number
Histories == UNION {[1..n -> 1..MaxHistory] : n \in 0..MaxHistory}

\* the sliding window of QAAgent.ask (lines 52-54): under
\* `if conversation_history:` the slice conversation_history[-n:], which
\* starts at len - n, at 0 when that is negative, and at index -0 = 0 when
\* n = 0
history_window(h, n) ==
    IF h = <<>> THEN h
    ELSE LET start == IF n = 0 THEN 0
                      ELSE IF Len(h) - n < 0 THEN 0 ELSE Len(h) - n
         IN  SubSeq(h, start + 1, Len(h))

\* a caller holds a conversation history
InitHistory ==
    /\ keys = <<>>
    /\ InitPool
    /\ InitSync
    /\ chunks = <<>>
    /\ index = <<>>
    /\ req \in {[NoReq EXCEPT !.history = h] : h \in Histories}

\* QAAgent.ask(question, conversation_history, max_history_messages) takes
\* the window of the history it passes on to get_llm_response (lines 158-162)
AskWithHistory ==
    \E n \in 0..(MaxHistory + 1) :
        /\ req.op = "none"
        /\ req' = [req EXCEPT !.op = "ask",
                              !.bound = n,
                              !.window = history_window(req.history, n)]
        /\ UNCHANGED <<keys, key_index, session_key_map, key_usage,
                       key_errors, first, last, store, cyc, error_calls,
                       chunks, index, runs, last_sync_time, loopVars, conc>>

NextHistory == AskWithHistory

SpecHistory == InitHistory /\ [][NextHistory]_vars

NextProv == ExtractSources

SpecProv == InitNoKeys /\ [][NextProv]_vars

C2_FallbackAvoidsExcluded ==
    (/\ last.op = "get_key_with_fallback"
     /\ Len(keys) >= 2
     /\ ~(Range(keys) \subseteq last.excl))
        => last.key \notin last.excl

\* C2 witness: the session was bound to an excluded credential and another
\* credential was returned
C2_Witness ==
    /\ last.op = "get_key_with_fallback"
    /\ Len(keys) >= 2
    /\ last.sid # NoSession
    /\ last.prev \in last.excl
    /\ ~(Range(keys) \subseteq last.excl)
    /\ last.key \in Range(keys) \ last.excl

\* C3 (failover scenario), as claimed: pool [K1, K2], session S bound to K1, the
\* completion request of S made with K1 is rejected with 429; after the
\* request S is bound to K2.
C3_FailoverRebinds ==
    (/\ last.op = "get_llm_response"
     /\ last.sid # NoSession
     /\ Len(keys) = 2
     /\ last.prev = keys[1]
     /\ last.calls # <<>>
     /\ last.calls[1].key = keys[1]
     /\ last.calls[1].st = 429)
        => session_key_map[last.sid] = keys[2]

\* C4 (one retry), as claimed: a first completion call rejected with 429, 401
\* or 403 while the pool holds another credential is followed by exactly one
\* retry with a different credential; a failed retry gives a completion
\* failure; no invocation makes more than two completion calls.
C4_OneRetryOnRejection ==
    /\ Len(last.calls) <= 2
    /\ (/\ last.op \in {"get_llm_response", "ask"}
        /\ last.calls # <<>>
        /\ last.calls[1].st \in {429, 401, 403}
        /\ Len(keys) >= 2)
           => /\ Len(last.calls) = 2
              /\ last.calls[2].key # last.calls[1].key
              /\ (last.calls[2].st # 200 => last.result = "error")

\* C5 (same credential per conversation), as claimed: with a pool of at least
\* 2 credentials, an ask that directly follows a successful ask of the same
\* conversation makes its completion call with the same credential.
C5_AskKeepsCredential ==
    (/\ last.op = "ask"
     /\ last.prev # NoKey
     /\ last.calls # <<>>
     /\ Len(keys) >= 2)
        => last.calls[1].key = last.prev

\* C6 (zero credentials): with an empty pool get_key_for_session and
\* get_key_with_fallback return no credential for every session, strategy
\* and exclusion set, and get_llm_response makes no completion call and
\* returns the configuration-error result.
C6_NoCredentials ==
    keys = <<>> =>
        /\ \A sid \in Callers, strategy \in Strategies :
              get_key_for_session(PoolState, sid, strategy, 1).key = NoKey
        /\ \A sid \in Callers, excl \in SUBSET Creds :
              get_key_with_fallback(PoolState, sid, excl).key = NoKey
        /\ (last.op = "get_key_for_session" => last.key = NoKey)
        /\ (last.op = "get_llm_response" =>
              last.calls = <<>> /\ last.result = "config_error")

\* C6 witness: get_llm_response was called on the empty pool
C6_Witness ==
    /\ keys = <<>>
    /\ last.op = "get_llm_response"
    /\ last.calls = <<>>
    /\ last.result = "config_error"

\* C18 (record_success): a record_success(c) call adds one to the usage
\* counter of c, sets the error counter of c to 0 and changes no other
\* counter, no session binding and not the round-robin cursor; and at every
\* moment the error counter of a credential is the number of record_error
\* calls for it since its last record_success.
C18_RecordSuccess ==
    /\ [](\A c \in Creds : key_errors[c] = error_calls[c])
    /\ [][last'.op = "record_success" =>
            /\ key_usage' = [key_usage EXCEPT ![last'.key] = @ + 1]
            /\ key_errors' = [key_errors EXCEPT ![last'.key] = 0]
            /\ session_key_map' = session_key_map
            /\ key_index' = key_index
            /\ keys' = keys]_vars

\* C18 witness: a record_success of one credential after which another
\* credential has its error count and a session its binding
C18_Witness ==
    /\ last.op = "record_success"
    /\ key_usage[last.key] > 0
    /\ key_errors[last.key] = 0
    /\ \E d \in Creds \ {last.key} : key_errors[d] > 0 /\ error_calls[d] > 0
    /\ \E sid \in Sessions : session_key_map[sid] # NoKey

\* C29 (the fallback result is the binding), as claimed: after a
\* get_key_with_fallback call for a session id on a non-empty pool, whether
\* the session was bound before or not, the session is bound to the
\* credential the call returned, and a get_key_for_session call for the
\* session returns it under every strategy; when the previous binding was
\* excluded and the exclusion set leaves a credential, the call returned
\* the first non-excluded credential in configured order.
C29_FallbackResultIsBinding ==
    (last.op = "get_key_with_fallback" /\ last.sid # NoSession /\ keys # <<>>) =>
        /\ session_key_map[last.sid] = last.key
        /\ \A strategy \in Strategies, r \in DOMAIN keys :
              get_key_for_session(PoolState, last.sid, strategy, r).key = last.key
        /\ (last.prev \in last.excl /\ ~(Range(keys) \subseteq last.excl) =>
              last.key = SelectSeq(keys, LAMBDA k : k \notin last.excl)[1])

\* C31 (every credential excluded): on a non-empty pool a
\* get_key_with_fallback call whose exclusion set holds every credential of
\* the pool returns a credential of the pool, and for a session that has a
\* binding it returns the bound credential and leaves the binding as it is.
C31_AllExcludedFallsBack ==
    (/\ last.op = "get_key_with_fallback"
     /\ keys # <<>>
     /\ Range(keys) \subseteq last.excl)
        => /\ last.key \in Range(keys)
           /\ (last.sid # NoSession /\ last.prev # NoKey =>
                  last.key = last.prev /\ session_key_map[last.sid] = last.prev)

\* C31 witness: every credential of a pool of two was excluded in a call
\* for a session bound to the second credential, and the call returned it
C31_Witness ==
    /\ last.op = "get_key_with_fallback"
    /\ Len(keys) >= 2
    /\ Range(keys) \subseteq last.excl
    /\ last.sid # NoSession
    /\ last.prev = keys[2]
    /\ last.key = keys[2]
    /\ session_key_map[last.sid] = keys[2]

\* C30 (binding frame): the binding of a bound session changes only in a
\* get_key_with_fallback call for that session whose exclusion set holds the
\* bound credential, or in a clear_session call for that session; every
\* get_key_for_session, record_success and record_error call, every call for
\* another session, and get_key_with_fallback with the bound credential not
\* excluded leave it as it is.
C30_BindingFrame ==
    [][\A s \in Sessions :
          (session_key_map[s] # NoKey /\ session_key_map'[s] # session_key_map[s]) =>
              \/ /\ last'.op = "get_key_with_fallback"
                 /\ last'.sid = s
                 /\ session_key_map[s] \in last'.excl
              \/ /\ last'.op = "clear_session"
                 /\ last'.sid = s]_vars

\* C30 witness: get_key_with_fallback was called for a bound session with a
\* non-empty exclusion set that leaves its credential, which is not the
\* first of the pool, after a success was recorded and callers without a
\* session moved the cursor on; the binding is the one before the call
C30_Witness ==
    /\ last.op = "get_key_with_fallback"
    /\ last.sid # NoSession
    /\ last.excl # {}
    /\ last.prev \in Range(keys) \ last.excl
    /\ session_key_map[last.sid] = last.prev
    /\ last.key = last.prev
    /\ last.prev # keys[1]
    /\ key_index >= 2
    /\ \E k \in Creds : key_usage[k] > 0

\* C32 (record_error): a record_error(c) call adds one to the error counter
\* of c and changes no other counter, no session binding, not the cursor
\* and not the key list; and whatever the error counters are, every
\* credential of the pool is returned by some get_key_for_session call and
\* by the get_key_with_fallback call that excludes the others.
C32_RecordErrorKeepsPool ==
    /\ [][last'.op = "record_error" =>
            /\ key_errors' = [key_errors EXCEPT ![last'.key] = @ + 1]
            /\ key_usage' = key_usage
            /\ session_key_map' = session_key_map
            /\ key_index' = key_index
            /\ keys' = keys]_vars
    /\ [](\A k \in Range(keys) :
            /\ \E r \in DOMAIN keys :
                  get_key_for_session(PoolState, NoSession, "random", r).key = k
            /\ \E i \in 0..(Len(keys) - 1) :
                  get_key_for_session([PoolState EXCEPT !.idx = i], NoSession,
                                      "round_robin", 1).key = k
            /\ get_key_with_fallback(PoolState, NoSession,
                                      Range(keys) \ {k}).key = k)

\* C32 witness: the second record_error in a row for the credential a
\* session is bound to; the session is still bound to it
C32_Witness ==
    /\ last.op = "record_error"
    /\ key_errors[last.key] = 2
    /\ Len(keys) >= 2
    /\ \E s \in Sessions : session_key_map[s] = last.key

C37_BoundKeysAreConfigured ==
    \A s \in Sessions :
        session_key_map[s] # NoKey => session_key_map[s] \in Range(keys)

\* C37 witness: after a recorded error, a get_key_with_fallback call whose
\* exclusion list held the bound credential and a string that is no key of
\* the pool has returned; the session is bound to a key of the pool
C37_Witness ==
    /\ last.op = "get_key_with_fallback"
    /\ last.sid # NoSession
    /\ last.prev \in last.excl
    /\ \E c \in last.excl : c \notin Range(keys)
    /\ session_key_map[last.sid] \in Range(keys)
    /\ last.key = session_key_map[last.sid]
    /\ \E k \in Creds : key_errors[k] > 0

\* C34 (other failures): a get_llm_response whose first completion call
\* fails with an HTTP status other than 429, 401 and 403 or with a transport
\* error makes that one call and returns the error; the error counter of the
\* credential it used is one more than before and no other counter changes;
\* a session that had a binding keeps it, a session that had none is bound
\* to the credential used, and no other binding changes, as when
\* get_key_with_fallback is not called.
C34_OtherFailureNoFailover ==
    [][(/\ last'.op = "get_llm_response"
        /\ last'.calls # <<>>
        /\ last'.calls[1].st \in {500, Transport})
          => /\ Len(last'.calls) = 1
             /\ last'.result = "error"
             /\ key_errors' = [key_errors EXCEPT ![last'.calls[1].key] = @ + 1]
             /\ key_usage' = key_usage
             /\ \A s \in Sessions :
                   session_key_map'[s] =
                      IF s = last'.sid /\ session_key_map[s] = NoKey
                      THEN last'.calls[1].key ELSE session_key_map[s]]_vars

\* C34 witness: the completion call of a session bound to a credential of a
\* pool of two failed with status 500 after an earlier failure
C34_Witness ==
    /\ last.op = "get_llm_response"
    /\ last.sid # NoSession
    /\ last.prev # NoKey
    /\ Len(keys) >= 2
    /\ Len(last.calls) = 1
    /\ last.calls[1].st = 500
    /\ last.calls[1].key = last.prev
    /\ session_key_map[last.sid] = last.prev
    /\ key_errors[last.prev] = 2

\* C33 (concurrent callers): under every interleaving of the statements of
\* threads that call get_key_for_session, record_success and record_error,
\* the calls of get_key_for_session for one session that have returned all
\* returned the credential the session is bound to, and the binding was
\* written once; the cursor is the number of round-robin selections made;
\* each usage counter is the number of record_success calls for its
\* credential and each error counter the number of record_error calls
\* since the last record_success.
C33_NoLostUpdate ==
    /\ \A t \in Threads :
          (/\ conc.of[t].pc = "done"
           /\ conc.of[t].op = "get_key_for_session"
           /\ conc.of[t].sid # NoSession
           /\ keys # <<>>)
              => conc.of[t].ret = session_key_map[conc.of[t].sid]
    /\ \A s \in Sessions : conc.binds[s] <= 1
    /\ key_index = conc.sels
    /\ \A k \in Creds : key_usage[k] = conc.succ[k]
    /\ \A k \in Creds : key_errors[k] = error_calls[k]

\* C33 witness: two round-robin calls of get_key_for_session for the same
\* new session, the second made while the first was inside the method, have
\* both returned; the cursor has moved once
C33_Witness ==
    \E t \in Threads : \E u \in Threads \ {t} :
        /\ conc.of[t].pc = "done" /\ conc.of[u].pc = "done"
        /\ conc.of[t].op = "get_key_for_session" /\ conc.of[u].op = "get_key_for_session"
        /\ conc.of[t].sid # NoSession /\ conc.of[u].sid = conc.of[t].sid
        /\ conc.of[t].rr /\ conc.of[u].rr
        /\ conc.of[u].raced
        /\ conc.started = 2
        /\ conc.of[t].ret = conc.of[u].ret
        /\ conc.of[t].ret # NoKey
        /\ key_index = 1
        /\ Len(keys) >= 2

\* C35 (history window), as claimed: for every history h and every bound
\* N >= 0 the history QAAgent.ask passes to the completion call is the last
\* min(N, len(h)) messages of h in their order, and holds at most N messages.
C35_HistoryWindow ==
    req.op = "ask" =>
        LET h == req.history
            m == Min(req.bound, Len(h))
        IN  /\ req.window = SubSeq(h, Len(h) - m + 1, Len(h))
            /\ Len(req.window) <= req.bound

(***************************************************************************)
(* Properties of the synchronization of the remote folder                  *)
(***************************************************************************)
\* C7 (no mixed version): between sync cycles that run one after another, no
\* two chunks of the collection with the same file_id carry different
\* modified_time values, for any sequence of listings and download failures.
C7_NoMixedVersion ==
    \A f \in Files : Cardinality(TokensOf(store, f)) <= 1

\* C7 witness: a cycle replaced the chunks of a file by those of a new version
C7_Witness ==
    /\ cyc.outcome = "done"
    /\ \E f \in cyc.stale : TokensOf(store, f) = {cyc.listing[f]}

\* C8 (eviction completeness): after a completed cycle no chunk remains of a
\* file that had chunks when the cycle started and is absent from its listing.
C8_EvictionComplete ==
    cyc.outcome = "done" =>
        \A f \in cyc.had : cyc.listing[f] = Absent => TokensOf(store, f) = {}

\* C8 witness: a cycle that added nothing evicted the chunks of an unlisted file
C8_Witness ==
    /\ cyc.outcome = "done"
    /\ cyc.adds = 0
    /\ \E f \in cyc.had : cyc.listing[f] = Absent /\ TokensOf(store, f) = {}

C10_FileUpdate ==
    cyc.outcome = "done" =>
        \A f \in cyc.stale :
            /\ TokensOf(store, f) \subseteq {cyc.listing[f]}
            /\ store[f][cyc.listing[f]] = Produced(cyc.listing, cyc.failed, f)

\* C10 witness: an updated file whose new content was downloaded and chunked
C10_Witness ==
    /\ cyc.outcome = "done"
    /\ \E f \in cyc.stale :
          /\ f \notin cyc.failed
          /\ NChunks(f, cyc.listing[f]) > 0
          /\ store[f][cyc.listing[f]] = NChunks(f, cyc.listing[f])

\* C13 (per-file failure isolation): after a cycle in which the download or
\* the extraction of a dirty file failed, every other dirty file of the
\* listing holds the chunks of its listed version, no chunk remains of an
\* indexed file absent from the listing, and the failed file has no entry in
\* the metadata, so the next cycle finds it dirty whatever its listed
\* modified_time.
C13_FailureIsolation ==
    cyc.outcome = "done" =>
        \A f \in cyc.failed :
            /\ \A g \in cyc.dirty \ cyc.failed :
                  /\ TokensOf(store, g) \subseteq {cyc.listing[g]}
                  /\ store[g][cyc.listing[g]] = NChunks(g, cyc.listing[g])
            /\ \A g \in cyc.had : cyc.listing[g] = Absent => TokensOf(store, g) = {}
            /\ \A t \in Tokens : IsDirty(get_all_metadata(store), f, t)

\* C13 witness: a cycle in which one download failed and another dirty file
\* was downloaded, chunked and stored
C13_Witness ==
    /\ cyc.outcome = "done"
    /\ \E f \in cyc.failed, g \in cyc.dirty \ cyc.failed :
          /\ f < g
          /\ store[g][cyc.listing[g]] = NChunks(g, cyc.listing[g])
          /\ NChunks(g, cyc.listing[g]) > 0
          /\ IsDirty(get_all_metadata(store), f, cyc.listing[f])

\* C14 (overlapping cycles), as claimed: when the timer-driven run and the
\* triggered run of sync_now, whose downloads all succeed, have both ended,
\* in whatever order their steps were taken, the collection is the one a
\* single run with that listing would have left: for each listed file the
\* chunks of its listed version once, and no chunk of an unlisted file.
C14_OverlapAsSingleCycle ==
    ((\A r \in Runners : runs.of[r].pc = "done") /\ runs.clean)
        => store = Reconcile(runs.before, get_all_metadata(runs.before),
                             runs.listing, {})

C22_NoChunkFileProcessedOnce ==
    cyc.outcome = "done" =>
        \A f \in Files :
            (cyc.listing[f] # Absent /\ NChunks(f, cyc.listing[f]) = 0) =>
                /\ store[f][cyc.listing[f]] = 0
                /\ (cyc.sameAsPrev /\ cyc.prevClean => f \notin cyc.dirty)

\* C23 (whole-batch add), as claimed: no completed cycle finds a listed file
\* up to date, its stored modified_time being the listed one, while the
\* collection holds another number of chunks of the file than its content
\* yields, also after a cycle in which add_texts failed partway.
C23_UpToDateFileIsWhole ==
    cyc.outcome = "done" =>
        \A f \in Files :
            (cyc.listing[f] # Absent /\ f \notin cyc.dirty) =>
                store[f][cyc.listing[f]] = NChunks(f, cyc.listing[f])

\* C24 (aborted cycle): a run of sync_now that finds no credentials, fails
\* while it reads or builds them, fails to build the service or fails to
\* list the folder makes no add_texts and no delete_by_file_id call, and the
\* collection after the run is the collection before it.
C24_AbortLeavesStore ==
    /\ [](cyc.outcome \in AbortOutcomes =>
            cyc.adds = 0 /\ cyc.dels = 0 /\ ~cyc.changed)
    /\ [][cyc'.outcome \in AbortOutcomes => store' = store]_vars

\* C24 witness: the listing failed in a run with usable credentials while
\* the collection held the chunks of a file
C24_Witness ==
    /\ cyc.outcome = "listing_error"
    /\ cyc.resolvable
    /\ \E f \in Files : TokensOf(store, f) # {}

\* C19 (credential resolution), as claimed: a run of sync_now for which at
\* least one of the three credential sources holds usable credentials gets
\* past the credential step, also when a source earlier in the order is
\* present and unusable.
C19_FirstResolvingSourceWins ==
    (cyc.outcome # "none" /\ cyc.resolvable)
        => cyc.outcome \notin {"no_credentials", "credentials_error"}

\* C20 (eviction runs in every cycle), as claimed: at the end of every run
\* that obtained the folder listing, whether it returned or an exception
\* ended the processing of a file, no chunk remains of a file that had chunks
\* when the run started and is absent from the listing.
C20_EvictionEveryCycle ==
    cyc.outcome \in {"done", "raised"} =>
        \A f \in cyc.had : cyc.listing[f] = Absent => TokensOf(store, f) = {}

(***************************************************************************)
(* Properties of the poll loop of the sync service                         *)
(***************************************************************************)
\* the threads of _sync_loop that have not ended
Alive == {t \in Loops : loops[t].pc \in {"check", "cycle", "sleep"}}

\* thread t ends a cycle in the step
EndsCycle(t) == loops[t].pc = "cycle" /\ loops'[t].pc = "sleep"

\* thread t begins a cycle in the step
BeginsCycle(t) == loops[t].pc # "cycle" /\ loops'[t].pc = "cycle"

\* C25 (completion time): a cycle of the poll loop that obtains the listing
\* and reaches the end of sync_now sets last_sync_time to the time of its
\* completion, whether or not a file was dirty or evicted; a cycle that
\* returns early or raises leaves last_sync_time as it was, and nothing but
\* the end of a completed cycle changes it.
C25_LastSyncTime ==
    [][/\ \A t \in Loops :
             EndsCycle(t) =>
                last_sync_time' = IF cyc'.outcome = "done" THEN now
                                  ELSE last_sync_time
       /\ (last_sync_time' # last_sync_time =>
              \E t \in Loops : EndsCycle(t) /\ cyc'.outcome = "done")]_vars

\* C25 witness: a cycle that found no file dirty and evicted none has just
\* completed, later than the cycle before it, and its time is recorded
C25_Witness ==
    /\ \E t \in Loops : loops[t].pc = "sleep" /\ loops[t].since = 0 /\ loops[t].ran
    /\ cyc.outcome = "done"
    /\ cyc.sameAsPrev
    /\ cyc.dirty = {}
    /\ cyc.adds = 0
    /\ cyc.dels = 0
    /\ now > 0
    /\ last_sync_time = now

\* C26 (stop signal): while the event is set no thread of the poll loop
\* begins a cycle; a thread in sync_now stays in it until sync_now ends,
\* whatever is called meanwhile, and sync_now does end; and once the event
\* is set, every thread ends unless start() clears the event again.
C26_StopSignal ==
    /\ [][\A t \in Loops :
            /\ (stop_event /\ loops[t].pc # "cycle" => loops'[t].pc # "cycle")
            /\ (loops[t].pc = "cycle" => loops'[t].pc \in {"cycle", "sleep"})]_vars
    /\ \A t \in Loops : loops[t].pc = "cycle" ~> loops[t].pc = "sleep"
    /\ stop_event ~> (~stop_event \/ Alive = {})

\* C26 witness: stop() was called while a thread was in sync_now; the cycle
\* has completed and stored chunks, and the thread is in its sleep
C26_Witness ==
    /\ stop_event
    /\ cyc.outcome = "done"
    /\ cyc.adds > 0
    /\ Alive # {}
    /\ \A t \in Alive : loops[t].pc = "sleep" /\ loops[t].stopped /\ loops[t].since = 0

\* C27 (single poll loop), as claimed: after any sequence of start() and
\* stop() calls at most one thread is in sync_now, and while the event is
\* clear at most one thread of the poll loop is alive.
C27_SinglePollLoop ==
    /\ Cardinality({t \in Loops : loops[t].pc = "cycle"}) <= 1
    /\ (~stop_event => Cardinality(Alive) <= 1)

\* C28 (the loop survives a failed cycle): a cycle that ends, however it
\* ends, leaves its thread in the sleep of the full interval; a thread
\* begins its next cycle only when the interval has passed since it ended
\* the last one; and a sleeping thread that has run a cycle begins another
\* one unless the event is set.
C28_LoopSurvivesFailure ==
    /\ [][\A t \in Loops :
            /\ (loops[t].pc = "cycle" /\ loops'[t].pc # "cycle" =>
                    loops'[t].pc = "sleep" /\ loops'[t].wait = SleepTicks)
            /\ (BeginsCycle(t) /\ loops[t].ran =>
                    loops[t].since >= SleepTicks)]_vars
    /\ \A t \in Loops :
          (loops[t].pc = "sleep" /\ loops[t].ran)
              ~> (loops[t].pc = "cycle" \/ stop_event)

\* C28 witness: a thread is in a cycle again after a cycle in which an
\* exception ended the loop over the files
C28_Witness ==
    /\ cyc.outcome = "raised"
    /\ ~stop_event
    /\ \E t \in Loops :
          /\ loops[t].pc = "cycle"
          /\ loops[t].ran
          /\ loops[t].since = SleepTicks
          /\ \A u \in Loops \ {t} : ~loops[u].ran

(***************************************************************************)
(* Properties of the local store and of the request handlers               *)
(***************************************************************************)
\* C38 (rejected upload): an upload with a file of an unsupported extension,
\* wherever it stands in the file list, is answered with status 400 and
\* leaves the texts and the vectors of the local store as they were, so the
\* chunks of the previous batch are still found by a search.
C38_RejectedUploadKeepsStore ==
    /\ [][(/\ req'.op = "upload_pdf"
            /\ \E i \in DOMAIN req'.files : req'.files[i].kind = "unsupported")
              => /\ req'.status = 400
                 /\ chunks' = chunks
                 /\ index' = index]_vars
    /\ []((req.op = "upload_pdf" /\ req.status = 400) =>
            /\ chunks = req.before
            /\ \A S \in Nearest(LocalStore, K) :
                  /\ ~local_search(LocalStore, S).raised
                  /\ local_search(LocalStore, S).hits \subseteq Range(req.before)
                  /\ (req.before # <<>> => local_search(LocalStore, S).hits # {}))

\* C38 witness: an upload of a supported file followed by an unsupported
\* one was rejected while the store held the chunks of an earlier upload
C38_Witness ==
    /\ req.op = "upload_pdf"
    /\ req.status = 400
    /\ Len(req.files) = 2
    /\ req.files[1].kind = "ok"
    /\ req.files[2].kind = "unsupported"
    /\ chunks # <<>>
    /\ chunks = req.before
    /\ Len(index) = Len(chunks)

\* C36 (search of the local store): search(q, k) on a store of n chunks
\* raises nothing and returns min(k, n) pairs (text, distance), each text a
\* stored chunk and each distance that of a stored vector to the query, in
\* order of non-decreasing distance; on the empty store it returns the
\* empty list.
C36_SearchResults ==
    req.op = "search" =>
        /\ ~req.raised
        /\ Len(req.results) = Min(req.k, Len(chunks))
        /\ \A i \in DOMAIN req.results :
              \E p \in DOMAIN chunks :
                  /\ req.results[i].text = chunks[p]
                  /\ req.results[i].distance = req.dist[p]
        /\ \A i \in DOMAIN req.results, j \in DOMAIN req.results :
              i < j => req.results[i].distance <= req.results[j].distance
        /\ (chunks = <<>> => req.results = <<>>)

\* C36 witness: a search with k above the number of stored chunks returned
\* every chunk, the second stored chunk first because it is nearer
C36_Witness ==
    /\ req.op = "search"
    /\ Len(chunks) >= 2
    /\ req.k > Len(chunks)
    /\ Len(req.results) = Len(chunks)
    /\ req.results[1].text = chunks[2]
    /\ req.results[1].distance < req.results[2].distance

\* C11 (join invariant): after any sequence of add_texts calls on the local
\* store, those rejected for a length mismatch included, and of uploads with
\* their reset, the number of stored texts equals the number of indexed
\* vectors, every position the search can rank maps to a stored text, and
\* no /ask request fails on the search.
C11_JoinInvariant ==
    /\ Len(chunks) = Len(index)
    /\ \A S \in Nearest(LocalStore, K) : ~local_search(LocalStore, S).raised
    /\ (req.op = "ask_question" => req.status # 500)

\* C11 witness: add_texts rejected a length mismatch on a store that holds texts
C11_Witness ==
    /\ req.op = "add_texts"
    /\ req.raised
    /\ Len(chunks) > 0
    /\ req.before = chunks
    /\ Len(index) = Len(chunks)

\* C12 (empty-corpus terminal case), as claimed: a question asked against a
\* store that holds no chunk, whose search does not fail, is answered with
\* the 'no relevant information' response and no sources, without a
\* completion call and without an error, by /ask over the local store and
\* by /drive/ask over the collection.
C12_EmptyCorpusAnswer ==
    (/\ req.op \in {"ask_question", "ask_drive_question"}
     /\ req.question
     /\ req.corpus = 0
     /\ ~req.raised)
        => /\ req.status = 200
           /\ req.answer = "empty"
           /\ req.sources = {}
           /\ req.ncalls = 0

\* C15 (local batch replacement): after an accepted upload the local store
\* holds the chunks of the files of that upload that were processed without
\* failure, file after file in the order of the upload, and nothing else; the
\* response names those files and its chunk count is the number of stored
\* chunks.
C15_BatchReplacement ==
    (req.op = "upload_pdf" /\ req.status = 200) =>
        LET ok == SelectSeq(req.files, LAMBDA file : file.kind = "ok")
            RECURSIVE expected(_)
            expected(n) == IF n = 0 THEN <<>>
                           ELSE expected(n - 1) \o LocalChunks(ok[n].doc)
        IN  /\ chunks = expected(Len(ok))
            /\ Len(index) = Len(chunks)
            /\ req.processed = [i \in DOMAIN ok |-> ok[i].doc]
            /\ req.count = Len(chunks)

\* C15 witness: an accepted upload of two files, one of which yielded chunks
\* and one of which did not, that removed chunks of the previous upload
C15_Witness ==
    /\ req.op = "upload_pdf"
    /\ req.status = 200
    /\ req.dropped
    /\ Len(req.files) = 2
    /\ Len(req.processed) = 1
    /\ chunks = LocalChunks(req.processed[1])

\* C16 (structured error), as claimed: a question-answering request whose
\* completion fails (no credential configured, HTTP error, transport error)
\* is answered with an error response, which its status tells from the
\* response of an answered question and from the 'no relevant information'
\* response.
C16_CompletionFailureIsError ==
    (/\ req.op \in {"ask_question", "ask_drive_question"}
     /\ req.completion \in {"config_error", "error"})
        => req.status >= 400

\* C17 (provenance rule), as claimed: when the answer text holds a source tag
\* with a non-empty name other than 'Unknown', the sources of the answer are
\* the names the tags cite, each once, and no retrieval candidate that is not
\* cited; when it holds none, they are the file names of the retrieved
\* chunks.
C17_ProvenanceRule ==
    req.op = "final_sources" =>
        IF CitedNames(req.segs) # {}
        THEN req.sources = CitedNames(req.segs)
        ELSE req.sources = {h.file_name : h \in {x \in req.hits : x.file_name # NoName}}
====
